---- MODULE Spec2Model ----
(***************************************************************************)
(* Model of the shader build task scheduler of scripts-common:             *)
(*   compile_shaders.py  the driver (directory walk, thread launch, exit   *)
(*                       status), Task.build and the runTasks worker loop  *)
(*   depfile.py          the Makefile-style dependency-file parser         *)
(*                                                                         *)
(* Spec / FairSpec  the driver and its worker threads as a state machine   *)
(* RaiseSpec / RaiseFairSpec  the same with a print that may raise         *)
(* DepSpec          depfile.parse run character by character over inputs   *)
(*                  drawn from a bounded set of texts                      *)
(* TaskSpec         createBasicTask and Task.needsBuild over a bounded     *)
(*                  file system                                            *)
(* VariantSpec      parseShaderVariants run line by line over bounded      *)
(*                  files                                                  *)
(* BuildSpec        Task.build over the command lists the driver makes,    *)
(*                  with return codes of the full 32-bit range             *)
(* RunsSpec         two runs of the driver, one after the other, over one  *)
(*                  file system that the commands of the first write to    *)
(***************************************************************************)
EXTENDS Integers, Sequences, FiniteSets

\* ------------------------------------------------------------------ bounds
\* Longest directory walk (number of files under args.input).
MaxFiles == 2
\* Largest value of multiprocessing.cpu_count().
MaxCpus == 2
\* Most Tasks one run finds in need of a build.
MaxTasks == 2

\* compile_shaders.py:166
maxAttempts == 1

\* Return codes an external command may end with (0: success).
RetCodes == {0, 1}

\* Kinds of file the walk meets: a direct-compile extension (.comp, .vert,
\* ...), a .slang source, anything else.
FileKinds == {"glsl", "slang", "other"}

\* Numbers of specs parseShaderVariants may return for a .slang file (0: the
\* parse error).
VariantCounts == {0, 1, 2}

Threads == 1..MaxCpus
NoTask == 0
Free == 0

RECURSIVE SeqsUpTo(_, _)
SeqsUpTo(S, n) ==
    IF n = 0 THEN {<<>>}
    ELSE LET shorter == SeqsUpTo(S, n - 1)
         IN  shorter \cup {Append(s, x) : s \in {q \in shorter : Len(q) = n - 1}, x \in S}

VARIABLES
    \* ---- the driver (main thread)
    files,        \* files the walk has not reached yet (os.walk order)
    binary,       \* args.binary
    tasks,        \* the shared list `tasks`: Task ids in queue order
    ncmd,         \* Task id -> len(task.commands), for every Task created
    terminate,    \* the global flag
    mainpc,       \* "walk", "start", "join", "final", "exited"
    threadCount,  \* number of worker threads (0 until computed)
    started,      \* threads started so far
    joined,       \* threads joined so far
    exitStatus,   \* process exit status; -1 while the process runs
    \* ---- the locks (holder thread, or Free)
    task_lock,
    report_lock,
    \* ---- each worker thread (runTasks and the calls it makes)
    pc,           \* position of the thread
    task,         \* local `task` (NoTask: None)
    cmd,          \* index of the command build() is at
    output,       \* allCommandOutputs: the commands (by index) whose output it holds
    exitCode,     \* local `exitCode` once build() returned
    site,         \* call site of printFromThread: "build" or "report"
    \* ---- history (not program state)
    result,       \* Task id -> exit code build() returned (-1: none yet)
    buildLog,     \* Task ids in the order they were taken off the queue and built
    interrupted,  \* "no": no SIGINT has set the flag; "queued": one set it while
                  \* threads were running with tasks queued; "yes": one set it at
                  \* another time (one that finds the flag set changes nothing)
    parseFailed,  \* parseShaderVariants returned [] for some file
    failSet,      \* a worker set terminate after a build() returned non-zero
    late,         \* thread -> Tasks it took off the queue while failSet held
    sawSet,       \* thread -> failSet held at the test of the flag that let it go on
    lateAfterTest, \* a thread took a Task though failSet held at its test of the flag
    \* ---- depfile.parse(lines, expectedTarget)
    text,           \* the depfile's content (history: `lines` before the call)
    lines,          \* the lines the outer loop has not reached yet
    line,           \* the characters of the current line the inner loop has not reached
    expectedTarget,
    targets,
    deps,
    in_deps,
    out,
    escape,         \* None, "\\" or "$"
    ppc,            \* "off", "lines" (outer loop), "chars" (inner loop), "done"
    ret,            \* the value returned
    rules,          \* history: <<targets, deps>> of each rule an unescaped newline ended
    \* ---- a Task and the files needsBuild() looks at
    force,          \* args.force
    present,        \* the paths os.path.exists is true of
    mtime,          \* path -> os.path.getmtime
    newestTool,     \* line 45
    depRead,        \* what open(depFile).readlines() meets: "absent", "unreadable", "ok"
    inputs,         \* task.inputs
    outputs,        \* task.outputs
    tpc,            \* "off", "create", "parsing", "created", "returned", "raised"
    made,           \* history: the Task was made by createBasicTask
    needs,          \* the value needsBuild() returned
    \* ---- parseShaderVariants(inputFile)
    inputFile,
    content,        \* history: the lines of the file
    vlines,         \* the lines `for line in file` has not reached yet
    lineno,
    vresult,        \* local `result`
    endvariantsFound,
    warned,         \* history: line numbers the warning of line 321 was printed for
    vpc,            \* "off", "scan", "end" (lines 323-329), "done"
    variants,       \* the value returned
    \* ---- Task.build() of one Task
    commands,       \* task.commands
    cmdIndex,       \* place in task.commands of the command the loop is at
    allCommandOutputs,
    commandName,
    longBits,       \* width of a C long where the driver runs: 32 or 64
    ran,            \* history: [returncode, out] of each process that ended, in order
    bpc,            \* "off", "call", "spawn", "wait", "returned"
    built,          \* the tuple returned: [exitCode, output, lastCommand]
    \* ---- two runs of the driver over one file system
    tree,           \* the files of args.input, in the order os.walk gives them
    run,            \* 1 or 2: the run under way
    walkAt,         \* place in `tree` of the file the walk is at
    rpc,            \* "off", "walk", "parsing", "created", "build", "exit"
    queue,          \* `tasks` of the run: places in `tree` of the files queued
    depText,        \* path of a depfile -> its content
    now,            \* the clock the file times are taken from
    stopped,        \* `terminate` of the run
    enq,            \* history: run -> places in `tree` whose Task was queued
    log,            \* history: run -> [unit, exitCode] of each build() that returned
    changed         \* history: a source was modified between the runs

mainVars == <<files, binary, tasks, ncmd, terminate, mainpc, threadCount,
              started, joined, exitStatus>>
lockVars == <<task_lock, report_lock>>
workerVars == <<pc, task, cmd, output, exitCode, site>>
histVars == <<result, buildLog, interrupted, parseFailed, failSet, late, sawSet,
              lateAfterTest>>
schedVars == <<mainVars, lockVars, workerVars, histVars>>
parseVars == <<text, lines, line, expectedTarget, targets, deps, in_deps, out, escape,
               ppc, ret, rules>>
taskVars == <<force, present, mtime, newestTool, depRead, inputs, outputs, tpc, made,
              needs>>
variantVars == <<inputFile, content, vlines, lineno, vresult, endvariantsFound, warned,
                 vpc, variants>>
buildVars == <<commands, cmdIndex, allCommandOutputs, commandName, longBits, ran, bpc,
               built>>
runVars == <<tree, run, walkAt, rpc, queue, depText, now, stopped, enq, log, changed>>
laterVars == <<variantVars, buildVars, runVars>>
restVars == <<taskVars, laterVars>>
vars == <<schedVars, parseVars, restVars>>

TaskIds == 1..MaxTasks

\* The driver before its walk: the module-level statements up to line 331.
DriverInit(fs, bin) ==
    /\ files = fs
    /\ binary = bin
    /\ tasks = <<>>
    /\ ncmd = <<>>
    /\ terminate = FALSE
    /\ mainpc = "walk"
    /\ threadCount = 0
    /\ started = 0
    /\ joined = 0
    /\ exitStatus = -1
    /\ task_lock = Free
    /\ report_lock = Free
    /\ pc = [w \in Threads |-> "idle"]
    /\ task = [w \in Threads |-> NoTask]
    /\ cmd = [w \in Threads |-> 0]
    /\ output = [w \in Threads |-> <<>>]
    /\ exitCode = [w \in Threads |-> 0]
    /\ site = [w \in Threads |-> "build"]
    /\ result = [t \in TaskIds |-> -1]
    /\ buildLog = <<>>
    /\ interrupted = "no"
    /\ parseFailed = FALSE
    /\ failSet = FALSE
    /\ late = [w \in Threads |-> 0]
    /\ sawSet = [w \in Threads |-> FALSE]
    /\ lateAfterTest = FALSE

None == "None"

\* No call of depfile.parse is under way.
ParserOff ==
    /\ text = <<>>
    /\ lines = <<>>
    /\ line = <<>>
    /\ expectedTarget = <<>>
    /\ targets = <<>>
    /\ deps = <<>>
    /\ in_deps = FALSE
    /\ out = <<>>
    /\ escape = None
    /\ ppc = "off"
    /\ ret = <<>>
    /\ rules = <<>>

\* No Task is looked at.
TaskOff ==
    /\ force = FALSE
    /\ present = {}
    /\ mtime = <<>>
    /\ newestTool = 0
    /\ depRead = "absent"
    /\ inputs = <<>>
    /\ outputs = <<>>
    /\ tpc = "off"
    /\ made = FALSE
    /\ needs = FALSE

\* No call of parseShaderVariants is under way.
VariantsOff ==
    /\ inputFile = <<>>
    /\ content = <<>>
    /\ vlines = <<>>
    /\ lineno = 0
    /\ vresult = <<>>
    /\ endvariantsFound = FALSE
    /\ warned = {}
    /\ vpc = "off"
    /\ variants = <<>>

\* No call of Task.build is looked at on its own.
BuildOff ==
    /\ commands = <<>>
    /\ cmdIndex = 0
    /\ allCommandOutputs = <<>>
    /\ commandName = <<>>
    /\ longBits = 32
    /\ ran = <<>>
    /\ bpc = "off"
    /\ built = [exitCode |-> 0, output |-> <<>>, lastCommand |-> <<>>]

\* No sequence of two runs is looked at.
RunsOff ==
    /\ tree = <<>>
    /\ run = 0
    /\ walkAt = 0
    /\ rpc = "off"
    /\ queue = <<>>
    /\ depText = <<>>
    /\ now = 0
    /\ stopped = FALSE
    /\ enq = <<>>
    /\ log = <<>>
    /\ changed = FALSE

LaterOff == VariantsOff /\ BuildOff /\ RunsOff

Init ==
    /\ \E fs \in SeqsUpTo(FileKinds, MaxFiles), bin \in BOOLEAN : DriverInit(fs, bin)
    /\ ParserOff
    /\ TaskOff
    /\ LaterOff

\* ------------------------------------------------------------ main thread

\* compile_shaders.py:201-212 and 214-257: len(task.commands) of a new Task.
\* A glslang task has one command; a slang task has the compile command and,
\* unless -binary was given, the conversion to a header.
CommandCount(kind) ==
    IF kind = "glsl" THEN 1
    ELSE IF binary THEN 1 ELSE 2

\* Lines 346-348 and 358-361: a Task is created for each of the n compilation
\* units of a file and appended to `tasks` when its needsBuild() is true.
\* stale[i]: what needsBuild() said for unit i. A Task is named by its place
\* in the queue; one that is not queued is dropped and gets no name.
StaleCount(stale) == Cardinality({i \in DOMAIN stale : stale[i]})

Enqueue(kind, stale) ==
    /\ Len(tasks) + StaleCount(stale) <= MaxTasks
    /\ ncmd' = ncmd \o [i \in 1..StaleCount(stale) |-> CommandCount(kind)]
    /\ tasks' = tasks \o [i \in 1..StaleCount(stale) |-> Len(ncmd) + i]

\* The body of the walk for a file with a direct-compile extension
\* (lines 337-348): one Task, queued if it needs a build.
DiscoverGlsl ==
    \E nb \in BOOLEAN :
        /\ Enqueue("glsl", <<nb>>)
        /\ UNCHANGED <<mainpc, exitStatus, parseFailed>>

\* Fault: the parse error is reported and the walk goes on with the next file.
ParseError_Skipped ==
    /\ parseFailed' = TRUE
    /\ UNCHANGED <<tasks, ncmd, mainpc, exitStatus>>

\* A .slang file whose variants could not be parsed (lines 353-355).
ParseError ==
    /\ parseFailed' = TRUE
    /\ mainpc' = "exited"
    /\ exitStatus' = 2
    /\ UNCHANGED <<tasks, ncmd>>

\* A .slang file (lines 350-361): parseShaderVariants gives nv specs; none is
\* the parse error; otherwise one Task per spec, queued if it needs a build.
DiscoverSlang ==
    \E nv \in VariantCounts :
        IF nv = 0
        THEN ParseError
        ELSE \E stale \in [1..nv -> BOOLEAN] :
                /\ Enqueue("slang", stale)
                /\ UNCHANGED <<mainpc, exitStatus, parseFailed>>

\* One iteration of the walk (lines 333-361).
Discover ==
    /\ mainpc = "walk"
    /\ files # <<>>
    /\ files' = Tail(files)
    /\ CASE Head(files) = "glsl" -> DiscoverGlsl
         [] Head(files) = "slang" -> DiscoverSlang
         [] OTHER -> UNCHANGED <<tasks, ncmd, mainpc, exitStatus, parseFailed>>
    /\ UNCHANGED <<binary, terminate, threadCount, started, joined>>
    /\ UNCHANGED <<lockVars, workerVars>>
    /\ UNCHANGED <<result, buildLog, interrupted, failSet, late, sawSet, lateAfterTest>>
    /\ UNCHANGED <<parseVars, restVars>>

\* The walk is over (lines 363-365): with tasks queued the thread count is
\* computed from args.parallel and multiprocessing.cpu_count(), otherwise the
\* driver goes to its final test of the flag.
WalkDone ==
    /\ mainpc = "walk"
    /\ files = <<>>
    /\ IF Len(tasks) > 0
       THEN \E parallel \in BOOLEAN, cpus \in 1..MaxCpus :
               /\ threadCount' = IF parallel THEN cpus ELSE 1
               /\ mainpc' = "start"
       ELSE /\ mainpc' = "final"
            /\ UNCHANGED threadCount
    /\ UNCHANGED <<files, binary, tasks, ncmd, terminate, started, joined,
                   exitStatus>>
    /\ UNCHANGED <<lockVars, workerVars>>
    /\ UNCHANGED histVars
    /\ UNCHANGED <<parseVars, restVars>>

\* thread.start() for the next thread (lines 366-369).
StartThread ==
    /\ mainpc = "start"
    /\ started' = started + 1
    /\ pc' = [pc EXCEPT ![started + 1] = "loop"]
    /\ mainpc' = IF started + 1 = threadCount THEN "join" ELSE "start"
    /\ UNCHANGED <<files, binary, tasks, ncmd, terminate, threadCount, joined,
                   exitStatus>>
    /\ UNCHANGED <<lockVars, task, cmd, output, exitCode, site, histVars>>
    /\ UNCHANGED <<parseVars, restVars>>

\* Fault: join() returns whether or not the thread has ended.
Ended_Unchecked(w) == TRUE

\* A thread has ended: it returned from runTasks or died of an exception.
Ended(w) == pc[w] \in {"done", "dead"}

\* thread.join() for the next thread returns (lines 371-372).
Join ==
    /\ mainpc = "join"
    /\ Ended(joined + 1)
    /\ joined' = joined + 1
    /\ mainpc' = IF joined + 1 = threadCount THEN "final" ELSE "join"
    /\ UNCHANGED <<files, binary, tasks, ncmd, terminate, threadCount, started,
                   exitStatus>>
    /\ UNCHANGED <<lockVars, workerVars, histVars>>
    /\ UNCHANGED <<parseVars, restVars>>

\* The final test of the flag (lines 374-375) and the end of the process.
Final ==
    /\ mainpc = "final"
    /\ exitStatus' = IF terminate THEN 1 ELSE 0
    /\ mainpc' = "exited"
    /\ UNCHANGED <<files, binary, tasks, ncmd, terminate, threadCount, started,
                   joined>>
    /\ UNCHANGED <<lockVars, workerVars, histVars>>
    /\ UNCHANGED <<parseVars, restVars>>

\* sigint_handler (lines 19-21), run by the main thread whenever a SIGINT is
\* delivered. One delivered after the final test of the flag cannot be told
\* from one delivered after the process ended, and is left out.
sigint_handler ==
    /\ mainpc \in {"walk", "start", "join", "final"}
    /\ terminate' = TRUE
    /\ interrupted' = IF terminate THEN interrupted
                      ELSE IF mainpc \in {"start", "join"} /\ tasks # <<>>
                           THEN "queued"
                           ELSE "yes"
    /\ UNCHANGED <<files, binary, tasks, ncmd, mainpc, threadCount, started,
                   joined, exitStatus>>
    /\ UNCHANGED <<lockVars, workerVars>>
    /\ UNCHANGED <<result, buildLog, parseFailed, failSet, late, sawSet, lateAfterTest>>
    /\ UNCHANGED <<parseVars, restVars>>

MainNext == Discover \/ WalkDone \/ StartThread \/ Join \/ Final

\* --------------------------------------------------------- worker threads

\* Fault: the return code is read as a C short.
ToInt32_Short(hi, lo) == IF lo >= 32768 THEN lo - 65536 ELSE lo

\* Line 131: ctypes.c_long(process.returncode).value, the return code read as
\* a signed 32-bit integer. The code is given by its two 16-bit halves,
\* hi * 65536 + lo, as TLC's integers are 32 bits wide themselves.
ToInt32(hi, lo) == (IF hi >= 32768 THEN hi - 65536 ELSE hi) * 65536 + lo

\* Fault: the loop goes on whatever the flag says.
AfterTest_Ignored(flag) == "acquire"

\* Lines 149-150: where the thread goes from the top of the loop.
AfterTest(flag) == IF flag THEN "done" ELSE "acquire"

\* runTasks, lines 149-150: the test of the flag at the top of the loop.
CheckTerminate(w) ==
    /\ pc[w] = "loop"
    /\ pc' = [pc EXCEPT ![w] = AfterTest(terminate)]
    /\ sawSet' = [sawSet EXCEPT ![w] = failSet /\ AfterTest(terminate) = "acquire"]
    /\ UNCHANGED <<mainVars, lockVars, task, cmd, output, exitCode, site>>
    /\ UNCHANGED <<result, buildLog, interrupted, parseFailed, failSet, late,
                   lateAfterTest>>
    /\ UNCHANGED <<parseVars, restVars>>

\* Fault: acquire() returns whether or not the lock is held.
LockFree_Ignored(lock) == TRUE

\* threading.Lock.acquire: the caller goes on once the lock is free.
LockFree(lock) == lock = Free

\* Fault: release() returns and the lock stays with its holder.
Unlocked_Held(lock) == lock

\* threading.Lock.release (lines 64 and 159): the lock after the call.
Unlocked(lock) == Free

\* Lines 154-157: task_lock.acquire(); tasksLeft = len(tasks); task = tasks[0]
\* when there is one.
AcquireTaskLock(w) ==
    /\ pc[w] = "acquire"
    /\ LockFree(task_lock)
    /\ task_lock' = w
    /\ IF Len(tasks) > 0
       THEN /\ task' = [task EXCEPT ![w] = tasks[1]]
            /\ pc' = [pc EXCEPT ![w] = "del"]
       ELSE /\ pc' = [pc EXCEPT ![w] = "release"]
            /\ UNCHANGED task
    /\ UNCHANGED <<mainVars, report_lock, cmd, output, exitCode, site,
                   histVars>>
    /\ UNCHANGED <<parseVars, restVars>>

\* Fault: the last Task is deleted in place of the first.
DeleteFirst_Last(q) == SubSeq(q, 1, Len(q) - 1)

\* The list after line 158, del tasks[0].
DeleteFirst(q) == SubSeq(q, 2, Len(q))

\* Lines 158-169 with a task: del tasks[0]; task_lock.release(); task.build()
\* is called and is at its first command.
DeleteHead(w) ==
    /\ pc[w] = "del"
    /\ tasks' = DeleteFirst(tasks)
    /\ task_lock' = Unlocked(task_lock)
    /\ pc' = [pc EXCEPT ![w] = "spawn"]
    /\ cmd' = [cmd EXCEPT ![w] = 1]
    /\ buildLog' = Append(buildLog, task[w])
    /\ late' = [late EXCEPT ![w] = IF failSet THEN @ + 1 ELSE @]
    /\ lateAfterTest' = (lateAfterTest \/ (failSet /\ sawSet[w]))
    /\ UNCHANGED <<files, binary, ncmd, terminate, mainpc, threadCount, started,
                   joined, exitStatus>>
    /\ UNCHANGED <<report_lock, task, output, exitCode, site>>
    /\ UNCHANGED <<result, interrupted, parseFailed, failSet, sawSet>>
    /\ UNCHANGED <<parseVars, restVars>>

\* Lines 159-162 without a task: task_lock.release(); the thread returns.
ReleaseTaskLock(w) ==
    /\ pc[w] = "release"
    /\ task_lock' = Unlocked(task_lock)
    /\ pc' = [pc EXCEPT ![w] = "done"]
    /\ UNCHANGED <<mainVars, report_lock, task, cmd, output, exitCode, site,
                   histVars>>
    /\ UNCHANGED <<parseVars, restVars>>

\* build(), line 115: subprocess.Popen starts the command.
Spawn(w) ==
    /\ pc[w] = "spawn"
    /\ pc' = [pc EXCEPT ![w] = "wait"]
    /\ UNCHANGED <<mainVars, lockVars, task, cmd, output, exitCode, site,
                   histVars>>
    /\ UNCHANGED <<parseVars, restVars>>

\* build(), line 115 raising (the process could not be started), caught at
\* lines 170-172: the flag is set and the exception ends the thread, and
\* with it its locals.
SpawnRaises(w) ==
    /\ pc[w] = "spawn"
    /\ terminate' = TRUE
    /\ pc' = [pc EXCEPT ![w] = "dead"]
    /\ task' = [task EXCEPT ![w] = NoTask]
    /\ cmd' = [cmd EXCEPT ![w] = 0]
    /\ output' = [output EXCEPT ![w] = <<>>]
    /\ UNCHANGED <<files, binary, tasks, ncmd, mainpc, threadCount, started,
                   joined, exitStatus>>
    /\ UNCHANGED <<lockVars, exitCode, site, histVars>>
    /\ UNCHANGED <<parseVars, restVars>>

\* build(), lines 116-121: communicate() returns when the process has ended;
\* printFromThread is called.
Wait(w) ==
    /\ pc[w] = "wait"
    /\ site' = [site EXCEPT ![w] = "build"]
    /\ pc' = [pc EXCEPT ![w] = "p_acquire"]
    /\ UNCHANGED <<mainVars, lockVars, task, cmd, output, exitCode, histVars>>
    /\ UNCHANGED <<parseVars, restVars>>

\* printFromThread, lines 62-63: report_lock.acquire(); print(what).
AcquireReportLock(w) ==
    /\ pc[w] = "p_acquire"
    /\ LockFree(report_lock)
    /\ report_lock' = w
    /\ pc' = [pc EXCEPT ![w] = "p_release"]
    /\ UNCHANGED <<mainVars, task_lock, task, cmd, output, exitCode, site, histVars>>
    /\ UNCHANGED <<parseVars, restVars>>

\* Lines 180-185 and back to line 149: where the thread goes once the report
\* of lines 174-178 is done, build() having returned code e with output acc.
\* The retry of lines 180-181 follows the crash diagnostic and needs
\* attempt < maxAttempts - 1, with attempt 0. Only a non-zero exit code has
\* the flag to set.
AfterReport(e, acc) ==
    IF Len(acc) = 0 /\ e = 1 /\ 0 < maxAttempts - 1 THEN "spawn"
    ELSE IF e # 0 THEN "setflag"
    ELSE "loop"

\* Lines 174-178, once build() returned code e with output acc: the output or
\* the crash diagnostic is printed. Gives the next position; with nothing to
\* print, that is the one that follows the report.
AfterBuild(e, acc) ==
    IF Len(acc) > 0 \/ e # 0 THEN "p_acquire" ELSE AfterReport(e, acc)

\* allCommandOutputs after lines 123-127.
Accumulate(acc, c, printed) == IF printed THEN Append(acc, c) ELSE acc

\* Fault: the assignment of line 185 is lost (it binds a local name).
FlagAfter_Lost(e, flag) == flag

\* Fault: the flag is assigned the outcome of the test of line 184.
FlagAfter_Assigned(e, flag) == e # 0

\* Lines 184-185: the flag after the test of the exit code e.
FlagAfter(e, flag) == IF e # 0 THEN TRUE ELSE flag

\* Whether build() returns after command c of n ended with return code r
\* (lines 129-134).
BuildEnds(r, c, n) == r # 0 \/ c = n

\* The exit code build() returns after a last command with return code r.
BuildCode(r) == IF r # 0 THEN ToInt32(r \div 65536, r % 65536) ELSE 0

\* printFromThread, line 64, called by build(): report_lock.release(); then
\* lines 123-134 with the return code r of the process that ended and
\* whether it printed anything (both are first read here, and are drawn
\* here): the output is accumulated; a non-zero return code ends build()
\* with that code, the last command ends it with 0, otherwise the next
\* command is started.
ReleaseInBuild(w) ==
    /\ pc[w] = "p_release"
    /\ site[w] = "build"
    /\ report_lock' = Unlocked(report_lock)
    /\ \E r \in RetCodes, printed \in BOOLEAN :
        LET acc == Accumulate(output[w], cmd[w], printed)
            e == BuildCode(r)
        IN  IF BuildEnds(r, cmd[w], ncmd[task[w]])
            THEN /\ exitCode' = [exitCode EXCEPT ![w] = e]
                 /\ result' = [result EXCEPT ![task[w]] = e]
                 /\ pc' = [pc EXCEPT ![w] = AfterBuild(e, acc)]
                 /\ site' = [site EXCEPT ![w] = "report"]
                 /\ cmd' = [cmd EXCEPT ![w] = 0]
                 /\ output' = [output EXCEPT ![w] = acc]
                 /\ task' = [task EXCEPT ![w] = IF AfterBuild(e, acc) = "loop"
                                                THEN NoTask ELSE @]
                 /\ terminate' = IF AfterBuild(e, acc) = "loop"
                                  THEN FlagAfter(e, terminate) ELSE terminate
            ELSE /\ cmd' = [cmd EXCEPT ![w] = @ + 1]
                 /\ pc' = [pc EXCEPT ![w] = "spawn"]
                 /\ output' = [output EXCEPT ![w] = acc]
                 /\ UNCHANGED <<exitCode, result, site, task, terminate>>
    /\ UNCHANGED <<files, binary, tasks, ncmd, mainpc, threadCount, started, joined,
                   exitStatus, task_lock>>
    /\ UNCHANGED <<buildLog, interrupted, parseFailed, failSet, late, sawSet, lateAfterTest>>
    /\ UNCHANGED <<parseVars, restVars>>

\* printFromThread, line 64, called by runTasks (line 175 or 178):
\* report_lock.release(); the output build() returned has no reader left; the
\* test of the exit code comes next, and with the exit code 0 the thread is
\* back at the top of the loop.
ReleaseInReport(w) ==
    /\ pc[w] = "p_release"
    /\ site[w] = "report"
    /\ report_lock' = Unlocked(report_lock)
    /\ pc' = [pc EXCEPT ![w] = AfterReport(exitCode[w], output[w])]
    /\ cmd' = [cmd EXCEPT ![w] = IF AfterReport(exitCode[w], output[w]) = "spawn"
                                  THEN 1 ELSE @]
    /\ output' = [output EXCEPT ![w] = <<>>]
    /\ site' = [site EXCEPT ![w] = "build"]
    /\ task' = [task EXCEPT ![w] = IF exitCode[w] = 0 THEN NoTask ELSE @]
    /\ terminate' = IF exitCode[w] = 0 THEN FlagAfter(exitCode[w], terminate)
                     ELSE terminate
    /\ UNCHANGED <<files, binary, tasks, ncmd, mainpc, threadCount, started, joined,
                   exitStatus, task_lock, exitCode, histVars>>
    /\ UNCHANGED <<parseVars, restVars>>

\* Lines 184-185, reached with a non-zero exit code: terminate = True; then
\* back to the loop, whose line 152 clears `task`.
SetTerminate(w) ==
    /\ pc[w] = "setflag"
    /\ terminate' = FlagAfter(exitCode[w], terminate)
    /\ failSet' = TRUE
    /\ pc' = [pc EXCEPT ![w] = "loop"]
    /\ task' = [task EXCEPT ![w] = NoTask]
    /\ exitCode' = [exitCode EXCEPT ![w] = 0]
    /\ UNCHANGED <<files, binary, tasks, ncmd, mainpc, threadCount, started,
                   joined, exitStatus>>
    /\ UNCHANGED <<lockVars, cmd, output, site>>
    /\ UNCHANGED <<result, buildLog, interrupted, parseFailed, late, sawSet, lateAfterTest>>
    /\ UNCHANGED <<parseVars, restVars>>

Worker(w) ==
    \/ CheckTerminate(w)
    \/ AcquireTaskLock(w)
    \/ DeleteHead(w)
    \/ ReleaseTaskLock(w)
    \/ Spawn(w)
    \/ SpawnRaises(w)
    \/ Wait(w)
    \/ AcquireReportLock(w)
    \/ ReleaseInBuild(w)
    \/ ReleaseInReport(w)
    \/ SetTerminate(w)

Next ==
    \/ MainNext
    \/ sigint_handler
    \/ \E w \in Threads : Worker(w)

Spec == Init /\ [][Next]_vars

\* Every thread that can take a step eventually takes one: the interpreter
\* schedules each runnable thread, and every external command ends.
FairSpec ==
    /\ Spec
    /\ WF_vars(MainNext)
    /\ \A w \in Threads : WF_vars(Worker(w))

\* printFromThread, line 63: print raises (the stream is closed, or cannot
\* encode the text). Line 64 is not reached and report_lock stays with the
\* thread. Called by build() (line 121) the exception leaves build() and is
\* caught at lines 170-172, which set the flag and raise it again; called by
\* runTasks (lines 175 and 178) it is caught nowhere. Either way it ends the
\* thread, and with it its locals; `site` is left to tell the two apart.
PrintRaises(w) ==
    /\ pc[w] = "p_release"
    /\ terminate' = IF site[w] = "build" THEN TRUE ELSE terminate
    /\ pc' = [pc EXCEPT ![w] = "dead"]
    /\ task' = [task EXCEPT ![w] = NoTask]
    /\ cmd' = [cmd EXCEPT ![w] = 0]
    /\ output' = [output EXCEPT ![w] = <<>>]
    /\ UNCHANGED <<files, binary, tasks, ncmd, mainpc, threadCount, started,
                   joined, exitStatus>>
    /\ UNCHANGED <<lockVars, exitCode, site, histVars>>
    /\ UNCHANGED <<parseVars, restVars>>

\* The driver and its workers with a print that may raise.
RaiseNext ==
    \/ Next
    \/ \E w \in Threads : PrintRaises(w)

RaiseSpec == Init /\ [][RaiseNext]_vars

\* As FairSpec: every thread that can take a step takes one, and no print is
\* bound to raise.
RaiseFairSpec ==
    /\ RaiseSpec
    /\ WF_vars(MainNext)
    /\ \A w \in Threads : WF_vars(Worker(w))

\* ------------------------------------------------- scheduler properties

Range(s) == {s[i] : i \in DOMAIN s}
Count(s, x) == Cardinality({i \in DOMAIN s : s[i] = x})

\* build() returned a non-zero exit code for Task t.
Failed(t) == result[t] # -1 /\ result[t] # 0
SomeFailed == \E t \in TaskIds : Failed(t)

\* The threads the driver created, and whether all of them have run to their
\* end and were joined.
Workers == 1..threadCount
AllJoined == joined = threadCount /\ \A w \in Workers : pc[w] \in {"done", "dead"}

\* C1: every Task is taken off the queue by at most one worker and built at
\* most once, and no two workers hold the same Task; a Task a worker builds
\* is no longer in the queue.
C1_OneWorkerPerTask ==
    /\ \A t \in TaskIds : Count(buildLog, t) <= 1
    /\ \A w, v \in Threads : (task[w] # NoTask /\ task[w] = task[v]) => w = v
    /\ \A w \in Threads :
          (task[w] # NoTask /\ pc[w] # "del") => task[w] \notin Range(tasks)

\* Two workers are each waiting for a command of a Task of their own.
C1_Witness ==
    \E w, v \in Threads :
        /\ w # v
        /\ pc[w] = "wait" /\ pc[v] = "wait"
        /\ task[w] # NoTask /\ task[v] # NoTask /\ task[w] # task[v]

\* C2 as stated: once a worker has set the flag after a failed build, no
\* worker takes a Task off the queue.
C2_NoneTakenAfterFailure == \A w \in Threads : late[w] = 0

\* C2, amended: once a worker has set the flag after a failed build, a worker
\* that tests the flag from then on takes no Task; a worker that was past its
\* test of the flag at that time takes at most one more Task.
C2_NoneTakenAfterTest ==
    /\ ~lateAfterTest
    /\ \A w \in Threads : late[w] <= 1

\* A worker has built a Task to its end that it took after the flag was set.
C2_Witness ==
    \E w \in Threads : late[w] = 1 /\ pc[w] = "done" /\ result[buildLog[Len(buildLog)]] # -1

C4_ParseErrorAborts ==
    parseFailed =>
        /\ mainpc = "exited"
        /\ exitStatus = 2
        /\ started = 0
        /\ buildLog = <<>>
        /\ \A w \in Threads : pc[w] = "idle"

\* A parse error came with Tasks already queued.
C4_Witness == parseFailed /\ tasks # <<>> /\ exitStatus = 2

C7_TerminateMonotonic == [][terminate => terminate']_vars

\* The flag was set by an interrupt and a build that succeeded afterwards
\* has left it set.
C7_Witness ==
    /\ terminate
    /\ interrupted = "queued"
    /\ ~failSet
    /\ mainpc = "exited"
    /\ \E t \in TaskIds : result[t] = 0

\* The steps by which worker w reads or writes the queue: the reading of
\* its length and head right after task_lock.acquire() (lines 154-157) and
\* del tasks[0] (line 158). The steps by which it reads or writes the flag:
\* the test of line 149 and the assignments of lines 171 and 185.
ReadsQueue(w) == pc[w] = "acquire" /\ pc'[w] # "acquire"
WritesQueue(w) == pc[w] = "del" /\ pc'[w] # "del"
ReadsFlag(w) == pc[w] = "loop" /\ pc'[w] # "loop"
WritesFlag(w) ==
    \/ pc[w] = "setflag" /\ pc'[w] # "setflag"
    \/ pc[w] = "spawn" /\ pc'[w] = "dead"
HoldsLock(w) == task_lock = w \/ report_lock = w

ProcessRunning(w) == pc[w] = "wait"

\* C21: a worker holds no lock while it starts an external process and while
\* the process runs; it holds task_lock only from the acquire of line 154 to
\* the release of line 159 (the queue pop), and report_lock only from the
\* acquire of line 62 to the release of line 64 (one call of print).
C21_NoLockWhileProcessRuns ==
    \A w \in Threads :
        /\ (pc[w] = "spawn" \/ ProcessRunning(w)) => ~HoldsLock(w)
        /\ task_lock = w => pc[w] \in {"del", "release"}
        /\ report_lock = w => pc[w] = "p_release"

\* The second command of a Task runs while another worker is inside print
\* with report_lock held.
C21_Witness ==
    \E w, v \in Threads :
        /\ w # v
        /\ ProcessRunning(w)
        /\ cmd[w] = 2
        /\ report_lock = v
        /\ pc[v] = "p_release"

\* The worker w is inside print (line 63).
Printing(w) == pc[w] = "p_release"

\* C22: a worker that is inside print holds report_lock, so that at most one
\* worker prints at a time; and the output of a Task (or its crash
\* diagnostic) is printed by one call: once the print of lines 174-178 has
\* returned, the worker goes on to the test of the exit code without a
\* second print for that Task.
C22_OnePrintAtATime ==
    /\ [](\A w \in Threads : Printing(w) => report_lock = w)
    /\ [](Cardinality({w \in Threads : Printing(w)}) <= 1)
    /\ [][\A w \in Threads :
            (Printing(w) /\ site[w] = "report" /\ ~Printing(w)') =>
                pc'[w] \in {"loop", "setflag"}]_vars

\* A worker prints the output of its Task while another worker, whose
\* build() has returned too, waits for report_lock with its own report.
C22_Witness ==
    \E w, v \in Threads :
        /\ w # v
        /\ Printing(w)
        /\ site[w] = "report"
        /\ pc[v] = "p_acquire"
        /\ site[v] = "report"

\* build() raised in the worker w: Popen did (line 115), or the print of
\* line 121.
BuildRaised(w) == pc[w] = "dead" /\ site[w] = "build"

\* C23: a worker whose task.build() raised has set the flag and has ended,
\* it takes no Task any more, and the process eventually exits with status 1.
C23_BuildExceptionEndsRun ==
    /\ [](\A w \in Threads : BuildRaised(w) => terminate)
    /\ [][\A w \in Threads : BuildRaised(w) => (BuildRaised(w)' /\ task'[w] = NoTask)]_vars
    /\ ((\E w \in Threads : BuildRaised(w)) ~> exitStatus = 1)

\* The positions of a worker that has a Task: inside build(), or between its
\* return and the next test of the flag.
InBuild == {"spawn", "wait", "p_acquire", "p_release", "setflag"}

C30_LocksAlwaysReleased ==
    /\ [](\A w \in Threads : Ended(w) => ~HoldsLock(w))
    /\ \A w \in Threads : (HoldsLock(w) ~> ~HoldsLock(w))
    /\ (mainpc = "join" ~> mainpc \in {"final", "exited"})

\* A worker died inside print with report_lock, and another one waits for
\* the lock.
DeadWithLock ==
    \E w, v \in Threads :
        /\ pc[w] = "dead"
        /\ report_lock = w
        /\ pc[v] = "p_acquire"

\* ------------------------------------------------------------ depfile.parse

\* Longest depfile text of the exhaustive inputs.
MaxLen == 4

\* A character is a string of length one; a string is a sequence of them.
NL == "\n"
BS == "\\"
Alphabet == {"a", "b", "/", ":", " ", BS, "$", NL}

RECURSIVE Concat(_)
Concat(ss) == IF ss = <<>> THEN <<>> ELSE Head(ss) \o Concat(Tail(ss))

\* Depfiles longer than MaxLen: the rule of the compilers' output, two
\* rules, an escaped space, an escaped dollar, a continued line, a target in
\* a directory.
Name_a_spv == <<"a", ".", "s", "p", "v">>
Name_z_spv == <<"z", ".", "s", "p", "v">>
Name_a_slang == <<"a", ".", "s", "l", "a", "n", "g">>
Name_b_slangh == <<"b", ".", "s", "l", "a", "n", "g", "h">>
Name_foo == <<"f", "o", "o">>
Name_bar_h == <<"b", "a", "r", ".", "h">>

Examples == {
    Concat(<<Name_a_spv, <<":", " ">>, Name_a_slang, <<" ">>, Name_b_slangh, <<NL>>>>),
    Concat(<<Name_a_spv, <<":", " ">>, Name_a_slang, <<" ">>, Name_b_slangh>>),
    Concat(<<Name_z_spv, <<":", " ">>, Name_foo, <<NL>>,
             <<"b", "/">>, Name_a_spv, <<" ", ":">>, Name_a_slang, <<" ", " ">>,
             Name_b_slangh, <<NL>>,
             Name_a_spv, <<":">>, Name_bar_h, <<NL>>>>),
    Concat(<<Name_a_spv, <<":", " ">>, Name_foo, <<BS, " ">>, Name_bar_h, <<NL>>>>),
    Concat(<<Name_a_spv, <<":", " ">>, Name_foo, <<"$", "$">>, Name_bar_h, <<" ", "b", NL>>>>),
    Concat(<<Name_a_spv, <<":", " ">>, Name_foo, <<" ", BS, NL, " ">>, Name_bar_h,
             <<BS, NL>>, Name_foo, <<NL>>>>)
}

\* Pairs <<text, expectedTarget>>: every text of up to MaxLen characters and
\* the longer ones. createBasicTask passes the path of the compiled artifact
\* as expectedTarget; its base name is never empty.
Inputs ==
    (SeqsUpTo(Alphabet, MaxLen) \X {<<"a">>, <<"b", "/", "a">>})
    \cup (Examples \X {Name_a_spv, Name_z_spv, <<"b", "/">> \o Name_a_spv})

\* file.readlines(): the text cut after each newline.
RECURSIVE ReadLines(_, _)
ReadLines(t, cur) ==
    IF t = <<>> THEN (IF cur = <<>> THEN <<>> ELSE <<cur>>)
    ELSE IF Head(t) = NL THEN <<Append(cur, NL)>> \o ReadLines(Tail(t), <<>>)
    ELSE ReadLines(Tail(t), Append(cur, Head(t)))

\* os.path.basename: what follows the last "/".
RECURSIVE Basename(_)
Basename(path) ==
    IF \E i \in DOMAIN path : path[i] = "/"
    THEN Basename(Tail(path))
    ELSE path

\* Fault: the targets are compared with expectedTarget as they stand.
TargetMatches_FullPath(ts, expected) ==
    \E i \in DOMAIN ts : ts[i] = expected

\* Lines 49-51: some target has the base name of expectedTarget.
TargetMatches(ts, expected) ==
    \E i \in DOMAIN ts : Basename(ts[i]) = Basename(expected)

\* Lines 26-28: the line the inner loop runs over.
WithNewline(l) == IF l # <<>> /\ l[Len(l)] = NL THEN l ELSE Append(l, NL)

\* Fault: the escaped character is dropped with its escape.
Escaped_Dropped(o, esc, c) == <<o, None>>

\* Fault: lines 33-34 are missing, an escaped newline is kept as a character.
Escaped_NewlineKept(o, esc, c) ==
    <<Append(IF esc = "$" /\ c # "$" THEN Append(o, "$") ELSE o, c), None>>

\* Lines 30-37: the character c met with an escape pending.
\* Gives <<out, escape>>.
Escaped(o, esc, c) ==
    LET o1 == IF esc = "$" /\ c # "$" THEN Append(o, "$") ELSE o
    IN  IF esc = BS /\ c = NL THEN <<o1, esc>>
        ELSE <<Append(o1, c), None>>

\* Lines 42-47: the token that a space or a newline ends goes to the
\* dependencies after a ":", to the targets before. Gives <<targets, deps>>.
EndToken(ts, ds, ind, o) ==
    IF o # <<>>
    THEN IF ind THEN <<ts, Append(ds, o)>> ELSE <<Append(ts, o), ds>>
    ELSE <<ts, ds>>

\* Lines 56-60: the lists and in_deps after a ":".
\* Gives <<targets, deps, in_deps>>.
Colon(ts, ds, ind, o) == <<Append(ts, o), ds, TRUE>>

\* Lines 25-28: the outer loop takes the next line.
NextLine ==
    /\ ppc = "lines"
    /\ lines # <<>>
    /\ line' = WithNewline(Head(lines))
    /\ lines' = Tail(lines)
    /\ escape' = None
    /\ ppc' = "chars"
    /\ UNCHANGED <<text, expectedTarget, targets, deps, in_deps, out, ret, rules>>
    /\ UNCHANGED <<schedVars, restVars>>

\* Line 62: no line is left.
ReturnEmpty ==
    /\ ppc = "lines"
    /\ lines = <<>>
    /\ ret' = <<>>
    /\ ppc' = "done"
    /\ UNCHANGED <<text, lines, line, expectedTarget, targets, deps, in_deps, out, escape,
                   rules>>
    /\ UNCHANGED <<schedVars, restVars>>

\* Lines 29-61: one turn of the inner loop, on the character c.
ParseChar ==
    /\ ppc = "chars"
    /\ LET c == Head(line)
           rest == Tail(line)
           more == IF rest = <<>> THEN "lines" ELSE "chars"
       IN  /\ line' = rest
           /\ rules' = IF escape = None /\ c = NL
                       THEN Append(rules, EndToken(targets, deps, in_deps, out))
                       ELSE rules
           /\ IF escape # None
              THEN /\ out' = Escaped(out, escape, c)[1]
                   /\ escape' = Escaped(out, escape, c)[2]
                   /\ ppc' = more
                   /\ UNCHANGED <<targets, deps, in_deps, ret>>
              ELSE IF c = BS \/ c = "$"
              THEN /\ escape' = c
                   /\ ppc' = more
                   /\ UNCHANGED <<targets, deps, in_deps, out, ret>>
              ELSE IF c = " " \/ c = NL
              THEN LET td == EndToken(targets, deps, in_deps, out)
                   IN  /\ out' = <<>>
                       /\ IF c = NL
                          THEN IF TargetMatches(td[1], expectedTarget)
                               THEN /\ ret' = td[2]
                                    /\ ppc' = "done"
                                    /\ targets' = td[1]
                                    /\ deps' = td[2]
                                    /\ UNCHANGED in_deps
                               ELSE /\ targets' = <<>>
                                    /\ deps' = <<>>
                                    /\ in_deps' = FALSE
                                    /\ ppc' = more
                                    /\ UNCHANGED ret
                          ELSE /\ targets' = td[1]
                               /\ deps' = td[2]
                               /\ ppc' = more
                               /\ UNCHANGED <<in_deps, ret>>
                       /\ UNCHANGED escape
              ELSE IF c = ":"
              THEN /\ targets' = Colon(targets, deps, in_deps, out)[1]
                   /\ deps' = Colon(targets, deps, in_deps, out)[2]
                   /\ in_deps' = Colon(targets, deps, in_deps, out)[3]
                   /\ out' = <<>>
                   /\ ppc' = more
                   /\ UNCHANGED <<escape, ret>>
              ELSE /\ out' = Append(out, c)
                   /\ ppc' = more
                   /\ UNCHANGED <<targets, deps, in_deps, escape, ret>>
    /\ UNCHANGED <<text, lines, expectedTarget>>
    /\ UNCHANGED <<schedVars, restVars>>

\* A call parse(lines, expectedTarget) on the lines of a depfile (line 194
\* of compile_shaders.py reads them with readlines()); the driver is idle.
DepInit ==
    /\ DriverInit(<<>>, FALSE)
    /\ \E p \in Inputs : text = p[1] /\ expectedTarget = p[2]
    /\ lines = ReadLines(text, <<>>)
    /\ line = <<>>
    /\ targets = <<>>
    /\ deps = <<>>
    /\ in_deps = FALSE
    /\ out = <<>>
    /\ escape = None
    /\ ppc = "lines"
    /\ ret = <<>>
    /\ rules = <<>>
    /\ TaskOff
    /\ LaterOff

DepNext == NextLine \/ ReturnEmpty \/ ParseChar

DepSpec == DepInit /\ [][DepNext]_vars

\* --------------------------------------------------- depfile properties

\* A depfile read as Make rules, with no reference to the parser's loop.
\* A character is escaped when the run of "\" and "$" right before it has an
\* odd length: the characters of such a run pair up, each second one escaped
\* by the one before it.
Escapes == {BS, "$"}
RunBefore(t, i) ==
    LET stops == {j \in 1..(i - 1) : t[j] \notin Escapes}
    IN  IF stops = {} THEN i - 1
        ELSE i - 1 - (CHOOSE j \in stops : \A k \in stops : k <= j)
IsEscaped(t, i) == RunBefore(t, i) % 2 = 1

\* The lexeme the character at place i stands for: "lit" (a character of a
\* token, escapes resolved), "sp", "nl", "colon", "none" (an escaping
\* character, or an escaped newline), and "lone" for what follows a "$"
\* other than a second "$".
Lexeme(k, c) == [k |-> k, c |-> c]
LexemeAt(t, i) ==
    CASE IsEscaped(t, i) /\ t[i - 1] = BS /\ t[i] = NL -> Lexeme("none", t[i])
      [] IsEscaped(t, i) /\ t[i - 1] = BS /\ t[i] # NL -> Lexeme("lit", t[i])
      [] IsEscaped(t, i) /\ t[i - 1] = "$" /\ t[i] = "$" -> Lexeme("lit", t[i])
      [] IsEscaped(t, i) /\ t[i - 1] = "$" /\ t[i] # "$" -> Lexeme("lone", t[i])
      [] ~IsEscaped(t, i) /\ t[i] \in Escapes -> Lexeme("none", t[i])
      [] ~IsEscaped(t, i) /\ t[i] = " " -> Lexeme("sp", t[i])
      [] ~IsEscaped(t, i) /\ t[i] = NL -> Lexeme("nl", t[i])
      [] ~IsEscaped(t, i) /\ t[i] = ":" -> Lexeme("colon", t[i])
      [] OTHER -> Lexeme("lit", t[i])

IsLexeme(x) == x.k # "none"
Lex(t) == SelectSeq([i \in DOMAIN t |-> LexemeAt(t, i)], IsLexeme)

\* The members of a set of numbers in increasing order.
Sorted(S) ==
    [n \in 1..Cardinality(S) |-> CHOOSE i \in S : Cardinality({j \in S : j < i}) = n - 1]

\* The lexemes of each rule that a newline ends.
RuleLexemes(lx) ==
    LET ends == Sorted({i \in DOMAIN lx : lx[i].k = "nl"})
    IN  [n \in DOMAIN ends |->
            SubSeq(lx, IF n = 1 THEN 1 ELSE ends[n - 1] + 1, ends[n] - 1)]

\* The tokens of a run of lexemes: the maximal runs without a space.
Chars(lx) == [i \in DOMAIN lx |-> lx[i].c]
Words(lx) ==
    LET first == Sorted({i \in DOMAIN lx :
                            lx[i].k # "sp" /\ (i = 1 \/ lx[i - 1].k = "sp")})
        last == Sorted({i \in DOMAIN lx :
                            lx[i].k # "sp" /\ (i = Len(lx) \/ lx[i + 1].k = "sp")})
    IN  [n \in DOMAIN first |-> Chars(SubSeq(lx, first[n], last[n]))]

Colons(lx) == {i \in DOMAIN lx : lx[i].k = "colon"}
FirstColon(lx) == CHOOSE i \in Colons(lx) : \A j \in Colons(lx) : i <= j

MakeTargets(lx) ==
    IF Colons(lx) = {} THEN Words(lx)
    ELSE Words(SubSeq(lx, 1, FirstColon(lx) - 1))

MakeDeps(lx) ==
    IF Colons(lx) = {} THEN <<>>
    ELSE Words(SubSeq(lx, FirstColon(lx) + 1, Len(lx)))

\* The text with the newline the last line may lack.
Whole(t) == IF t = <<>> THEN t ELSE WithNewline(t)

MakeRules(t) == RuleLexemes(Lex(Whole(t)))

\* Rules of the form `targets: deps`: one ":" at most, every "$" doubled.
PlainRules(t) ==
    /\ \A i \in DOMAIN Whole(t) : LexemeAt(Whole(t), i).k # "lone"
    /\ \A i \in DOMAIN MakeRules(t) : Cardinality(Colons(MakeRules(t)[i])) <= 1

HasBasename(ts, expected) == \E i \in DOMAIN ts : Basename(ts[i]) = Basename(expected)

\* The dependencies of the first rule with a target of expected's base name.
MakeParse(t, expected) ==
    LET rs == MakeRules(t)
        hits == {i \in DOMAIN rs : HasBasename(MakeTargets(rs[i]), expected)}
    IN  IF hits = {} THEN <<>>
        ELSE MakeDeps(rs[CHOOSE i \in hits : \A j \in hits : i <= j])

Rule_a_spv == Concat(<<Name_a_spv, <<":", " ">>, Name_a_slang, <<" ">>, Name_b_slangh>>)
TwoLines ==
    Concat(<<Name_z_spv, <<":", " ">>, Name_foo, <<NL>>,
             <<"b", "/">>, Name_a_spv, <<" ", ":">>, Name_a_slang, <<" ", " ">>,
             Name_b_slangh, <<NL>>,
             Name_a_spv, <<":">>, Name_bar_h, <<NL>>>>)

EscapedSpace == Concat(<<Name_a_spv, <<":", " ">>, Name_foo, <<BS, " ">>, Name_bar_h, <<NL>>>>)
DoubledDollar ==
    Concat(<<Name_a_spv, <<":", " ">>, Name_foo, <<"$", "$">>, Name_bar_h, <<" ", "b", NL>>>>)

\* C9: a space that follows a backslash is added to the token being read and
\* ends no token; a "$" that follows a "$" adds one "$" to the token;
\* `foo\ bar.h` is returned as the one path `foo bar.h`, `foo$$bar.h` as
\* `foo$bar.h`.
C9_EscapedSpaceAndDollar ==
    /\ [][(ppc = "chars" /\ escape = BS /\ Head(line) = " ") =>
            (out' = Append(out, " ") /\ UNCHANGED <<targets, deps, in_deps>>)]_vars
    /\ [][(ppc = "chars" /\ escape = "$" /\ Head(line) = "$") =>
            (out' = Append(out, "$") /\ UNCHANGED <<targets, deps, in_deps>>)]_vars
    /\ []((ppc = "done" /\ text = EscapedSpace /\ expectedTarget = Name_a_spv) =>
            ret = <<Name_foo \o <<" ">> \o Name_bar_h>>)
    /\ []((ppc = "done" /\ text = DoubledDollar /\ expectedTarget = Name_a_spv) =>
            ret = <<Name_foo \o <<"$">> \o Name_bar_h, <<"b">>>>)

\* The dependency `foo\ bar.h` was returned as one path with a space in it.
C9_Witness ==
    /\ ppc = "done"
    /\ text = EscapedSpace
    /\ expectedTarget = Name_a_spv
    /\ Len(ret) = 1
    /\ \E i \in DOMAIN ret[1] : ret[1][i] = " "

Continued ==
    Concat(<<Name_a_spv, <<":", " ">>, Name_foo, <<" ", BS, NL, " ">>, Name_bar_h,
             <<BS, NL>>, Name_foo, <<NL>>>>)

\* C10: a newline that follows a backslash leaves the token being read, the
\* targets, the dependencies and the rule as they are, and parse does not
\* return at it; the rule `a.spv: foo \<newline> bar.h\<newline>foo` has the
\* dependencies foo and bar.hfoo.
C10_ContinuedLine ==
    /\ [][(ppc = "chars" /\ escape = BS /\ Head(line) = NL) =>
            (UNCHANGED <<out, targets, deps, in_deps, rules, ret>> /\ ppc' # "done")]_vars
    /\ []((ppc = "done" /\ text = Continued /\ expectedTarget = Name_a_spv) =>
            ret = <<Name_foo, Name_bar_h \o Name_foo>>)

\* A rule written on three lines was read as one rule.
C10_Witness ==
    /\ ppc = "done"
    /\ text = Continued
    /\ expectedTarget = Name_a_spv
    /\ Len(rules) = 1
    /\ ret = <<Name_foo, Name_bar_h \o Name_foo>>

\* Every "$" of the text is doubled.
DollarsDoubled(t) == \A i \in DOMAIN Whole(t) : LexemeAt(Whole(t), i).k # "lone"

\* C24: once the ":" of a rule has been read, no token is added to the
\* targets of that rule (they are cleared when the rule ends; an empty string
\* is no token), and the value returned is the dependency list of the rule
\* read as a Make rule, whose first ":" ends the targets.
C24_ColonEndsTargets ==
    /\ [][(ppc = "chars" /\ in_deps) =>
            \/ targets' = targets
            \/ targets' = <<>>
            \/ targets' = Append(targets, <<>>)]_vars
    /\ []((ppc = "done" /\ DollarsDoubled(text)) => ret = MakeParse(text, expectedTarget))

\* A second ":" was read in a rule and the token before it went to the
\* targets.
SecondColon ==
    /\ ppc \in {"chars", "lines"}
    /\ in_deps
    /\ Len(targets) = 2
    /\ targets[2] # <<>>

\* The character of the text right before the one the inner loop is at
\* (None at the start of a line).
PrevChar ==
    LET all == ReadLines(text, <<>>)
        cur == WithNewline(all[Len(all) - Len(lines)])
        at == Len(cur) - Len(line) + 1
    IN  IF at = 1 THEN None ELSE cur[at - 1]

\* C25: a newline that does not follow a backslash ends the rule (parse
\* returns, or the targets and dependencies are cleared), and a space that
\* does not follow a backslash ends the token being read, which goes to the
\* targets or the dependencies.
C25_UnescapedSeparators ==
    [][ppc = "chars" =>
         /\ (Head(line) = NL /\ PrevChar # BS) =>
                /\ out' = <<>>
                /\ ppc' = "done" \/ (targets' = <<>> /\ deps' = <<>> /\ ~in_deps')
         /\ (Head(line) = " " /\ PrevChar # BS) =>
                /\ out' = <<>>
                /\ <<targets', deps'>> = EndToken(targets, deps, in_deps, out)]_vars

\* The same for the separators that follow no pending escape, "\" or "$".
UnescapedSeparatorsEnd ==
    [][(ppc = "chars" /\ escape = None) =>
         /\ Head(line) = NL =>
                /\ out' = <<>>
                /\ ppc' = "done" \/ (targets' = <<>> /\ deps' = <<>> /\ ~in_deps')
         /\ Head(line) = " " =>
                /\ out' = <<>>
                /\ <<targets', deps'>> = EndToken(targets, deps, in_deps, out)]_vars

\* A newline or a space that followed a "$" went into the token.
DollarSwallowed ==
    /\ out # <<>>
    /\ out[Len(out)] \in {NL, " "}
    /\ Len(out) >= 2
    /\ out[Len(out) - 1] = "$"

\* ------------------------------------- createBasicTask and Task.needsBuild

\* Latest modification time of the bounded file system.
MaxTime == 2
\* Longest inputs or outputs list of a Task that is given as such.
MaxPaths == 2

Times == 1..MaxTime

\* The files: two sources a depfile may name, and destFile and depFile of the
\* Task (lines 204-205 and 222-224).
Name_a_d == <<"a", ".", "d">>
DestFile == Name_a_spv
DepFile == Name_a_d
Sources == {Name_a_slang, Name_b_slangh}
Artifacts == {DestFile, DepFile}
Paths == Sources \cup Artifacts

\* What a readable depfile may hold: nothing, the rule of DestFile, a rule of
\* another target, the rule of DestFile with no dependency, a rule of another
\* target followed by the rule of DestFile.
DepTexts == {
    <<>>,
    Append(Rule_a_spv, NL),
    Concat(<<Name_z_spv, <<":", " ">>, Name_a_slang, <<NL>>>>),
    Concat(<<Name_a_spv, <<":", NL>>>>),
    Concat(<<Name_z_spv, <<":", " ">>, Name_a_slang, <<NL>>,
             Name_a_spv, <<":", " ">>, Name_b_slangh, <<NL>>>>)
}

Max(a, b) == IF a >= b THEN a ELSE b
Min(a, b) == IF a <= b THEN a ELSE b

\* Fault: only a missing file is caught.
Caught_NotFoundOnly(kind) == kind = "absent"

\* Line 196: the bare except catches whatever lines 194-195 raised.
Caught(kind) == TRUE

\* Fault: without a depfile the source is taken for the one dependency.
NoInputs_Source(source) == <<source>>

\* Line 197: task.inputs after an exception.
NoInputs(source) == <<>>

\* createBasicTask, lines 192-195 up to the call of depfile.parse, and lines
\* 196-199 when open() or readlines() raised.
ReadDepfile ==
    /\ tpc = "create"
    /\ IF depRead = "ok"
       THEN /\ lines' = ReadLines(text, <<>>)
            /\ expectedTarget' = DestFile
            /\ ppc' = "lines"
            /\ tpc' = "parsing"
            /\ UNCHANGED <<inputs, outputs>>
       ELSE IF Caught(depRead)
       THEN /\ inputs' = NoInputs(Name_a_slang)
            /\ outputs' = <<DestFile, DepFile>>
            /\ tpc' = "created"
            /\ UNCHANGED <<lines, expectedTarget, ppc>>
       ELSE /\ tpc' = "raised"
            /\ UNCHANGED <<inputs, outputs, lines, expectedTarget, ppc>>
    /\ UNCHANGED <<text, line, targets, deps, in_deps, out, escape, ret, rules>>
    /\ UNCHANGED <<force, present, mtime, newestTool, depRead, made, needs>>
    /\ UNCHANGED <<schedVars, laterVars>>

\* createBasicTask, lines 195 and 198-199, once depfile.parse returned.
TaskParsed ==
    /\ tpc = "parsing"
    /\ ppc = "done"
    /\ inputs' = ret
    /\ outputs' = <<DestFile, DepFile>>
    /\ tpc' = "created"
    /\ UNCHANGED <<force, present, mtime, newestTool, depRead, made, needs>>
    /\ UNCHANGED <<schedVars, parseVars, laterVars>>

\* Fault: a file that does not exist is passed over.
Missing_Skipped(p) == FALSE

\* Lines 79 and 90: os.path.exists(p) is false.
Missing(p) == p \notin present

\* Lines 77 and 88: None, the time of no file. A time t is held as <<t>>.
Unset == <<>>

\* Lines 78-86: the loop over the inputs from the time acc on. Gives whether
\* the loop returned True at a missing file, and mostRecentInput.
RECURSIVE MostRecentInput(_, _)
MostRecentInput(ps, acc) ==
    IF ps = <<>> THEN [returned |-> FALSE, t |-> acc]
    ELSE IF Missing(Head(ps)) THEN [returned |-> TRUE, t |-> acc]
    ELSE MostRecentInput(Tail(ps),
             IF acc = Unset THEN <<mtime[Head(ps)]>>
             ELSE <<Max(acc[1], mtime[Head(ps)])>>)

\* Lines 89-97: the loop over the outputs.
RECURSIVE OldestOutput(_, _)
OldestOutput(ps, acc) ==
    IF ps = <<>> THEN [returned |-> FALSE, t |-> acc]
    ELSE IF Missing(Head(ps)) THEN [returned |-> TRUE, t |-> acc]
    ELSE OldestOutput(Tail(ps),
             IF acc = Unset THEN <<mtime[Head(ps)]>>
             ELSE <<Min(acc[1], mtime[Head(ps)])>>)

\* Fault: outputs as old as the newest input are rebuilt.
Stale_OrEqual(newest, oldest) == newest >= oldest

\* Line 105.
Stale(newest, oldest) == newest > oldest

\* Fault: line 103 is missing, the tools are not looked at.
WithTools_Ignored(newest, tool) == newest

\* Line 103.
WithTools(newest, tool) == Max(newest, tool)

\* Task.needsBuild, lines 73-105.
NeedsBuild(ins, outs) ==
    IF force THEN TRUE
    ELSE LET a == MostRecentInput(ins, Unset)
         IN  IF a.returned THEN TRUE
             ELSE LET b == OldestOutput(outs, Unset)
                  IN  IF b.returned THEN TRUE
                      ELSE IF a.t = Unset \/ b.t = Unset THEN TRUE
                      ELSE Stale(WithTools(a.t[1], newestTool), b.t[1])

\* task.needsBuild() is called (lines 347 and 360).
needsBuild ==
    /\ tpc = "created"
    /\ needs' = NeedsBuild(inputs, outputs)
    /\ tpc' = "returned"
    /\ UNCHANGED <<force, present, mtime, newestTool, depRead, inputs, outputs, made>>
    /\ UNCHANGED <<schedVars, parseVars, laterVars>>

\* The files and the flags: every set of files out of Paths, each with a
\* time (a file that does not exist has none: its entry is 1).
Files(pr, mt, tool, f) ==
    /\ \A p \in Paths \ pr : mt[p] = 1
    /\ present = pr
    /\ mtime = mt
    /\ newestTool = tool
    /\ force = f

\* createBasicTask is called: the depfile is missing, cannot be read, or holds
\* one of DepTexts.
TaskToCreate ==
    /\ tpc = "create"
    /\ made = TRUE
    /\ inputs = <<>>
    /\ outputs = <<>>
    /\ \E r \in {"absent", "unreadable", "ok"}, t \in DepTexts :
          /\ (r = "absent") = (DepFile \notin present)
          /\ r # "ok" => t = <<>>
          /\ depRead = r
          /\ text = t

\* A Task with any inputs and outputs lists, as the class allows
\* (lines 68-69: both lists are empty until assigned).
TaskGiven ==
    /\ tpc = "created"
    /\ made = FALSE
    /\ \E ins \in SeqsUpTo(Sources, MaxPaths), outs \in SeqsUpTo(Artifacts, MaxPaths) :
          /\ inputs = ins
          /\ outputs = outs
    /\ depRead = IF DepFile \in present THEN "ok" ELSE "absent"
    /\ text = <<>>

TaskInit ==
    /\ DriverInit(<<>>, FALSE)
    /\ \E pr \in SUBSET Paths, mt \in [Paths -> Times], tool \in Times, f \in BOOLEAN :
          Files(pr, mt, tool, f)
    /\ (TaskToCreate \/ TaskGiven)
    /\ lines = <<>>
    /\ line = <<>>
    /\ expectedTarget = <<>>
    /\ targets = <<>>
    /\ deps = <<>>
    /\ in_deps = FALSE
    /\ out = <<>>
    /\ escape = None
    /\ ppc = "off"
    /\ ret = <<>>
    /\ rules = <<>>
    /\ needs = FALSE
    /\ LaterOff

TaskNext ==
    \/ ReadDepfile
    \/ NextLine
    \/ ReturnEmpty
    \/ ParseChar
    \/ TaskParsed
    \/ needsBuild

TaskSpec == TaskInit /\ [][TaskNext]_vars

\* ---------------------------------------------------- Task properties

\* No rule of the depfile t, read as Make rules, has a target with the base
\* name of the target asked for.
NoRule(t, target) ==
    \A i \in DOMAIN MakeRules(t) : ~HasBasename(MakeTargets(MakeRules(t)[i]), target)

\* The depfile gave createBasicTask nothing: it could not be opened or read,
\* or no rule of it matches.
NoDependencies == depRead # "ok" \/ NoRule(text, DestFile)

\* C11: createBasicTask does not raise; when the depfile cannot be opened or
\* read or has no rule for the target, the Task it returns has no inputs; a
\* Task it returns without inputs reports needsBuild() true.
C11_NoDepfileForcesBuild ==
    /\ tpc # "raised"
    /\ (made /\ tpc \in {"created", "returned"} /\ NoDependencies) => inputs = <<>>
    /\ (made /\ tpc = "returned" /\ inputs = <<>>) => needs

\* A depfile with a rule for another target only: the Task has no inputs and
\* needs a build though both outputs exist and are as new as the tools.
C11_Witness ==
    /\ made
    /\ tpc = "returned"
    /\ depRead = "ok"
    /\ text # <<>>
    /\ NoRule(text, DestFile)
    /\ ~force
    /\ Artifacts \subseteq present
    /\ \A p \in Artifacts : mtime[p] >= newestTool
    /\ inputs = <<>>
    /\ needs

\* C15: needsBuild() is true when an output or an input does not exist and
\* when one of the two lists is empty, whatever the times of the files.
C15_MissingOrEmptyForcesBuild ==
    (/\ tpc = "returned"
     /\ \/ \E i \in DOMAIN outputs : outputs[i] \notin present
        \/ \E i \in DOMAIN inputs : inputs[i] \notin present
        \/ inputs = <<>>
        \/ outputs = <<>>)
    => needs

\* The second input is missing; the first input and the tools are older than
\* both outputs.
C15_Witness ==
    /\ tpc = "returned"
    /\ ~force
    /\ Len(inputs) = 2
    /\ inputs[1] \in present
    /\ inputs[2] \notin present
    /\ Len(outputs) = 2
    /\ \A i \in DOMAIN outputs :
          /\ outputs[i] \in present
          /\ mtime[outputs[i]] > mtime[inputs[1]]
          /\ mtime[outputs[i]] > newestTool
    /\ needs

InputTimes == {mtime[inputs[i]] : i \in DOMAIN inputs}
OutputTimes == {mtime[outputs[i]] : i \in DOMAIN outputs}

\* C16: with the force flag needsBuild() is true; without it, with every
\* input and output existing and neither list empty, it is true exactly when
\* some input or the newest tool is strictly newer than some output.
C16_StaleIffNewer ==
    tpc = "returned" =>
        /\ force => needs
        /\ (/\ ~force
            /\ inputs # <<>>
            /\ outputs # <<>>
            /\ \A i \in DOMAIN inputs : inputs[i] \in present
            /\ \A i \in DOMAIN outputs : outputs[i] \in present)
           => (needs <=> \E t \in InputTimes \cup {newestTool} :
                            \E o \in OutputTimes : t > o)

\* Both inputs are older than both outputs, and a tool is newer than one of
\* the outputs: the Task needs a build because of the tool alone.
C16_Witness ==
    /\ tpc = "returned"
    /\ ~force
    /\ Len(inputs) = 2
    /\ Len(outputs) = 2
    /\ \A i \in DOMAIN inputs : inputs[i] \in present
    /\ \A i \in DOMAIN outputs : outputs[i] \in present
    /\ \A t \in InputTimes : \A o \in OutputTimes : t <= o
    /\ \E o \in OutputTimes : newestTool > o
    /\ needs

\* ----------------------------------------------------- parseShaderVariants

\* Most lines of a file of the exhaustive inputs.
MaxLines == 3

\* The markers of lines 287, 306, 316 and 320.
Marker_variant == <<"/", "/", "!", "v", "a", "r", "i", "a", "n", "t">>
Marker_more == <<"/", "/", "!", ">">>
Marker_end == <<"/", "/", "!", "e", "n", "d", "-", "v", "a", "r", "i", "a", "n", "t", "s">>
Marker_bang == <<"/", "/", "!">>
Marker_angle == <<"/", "/", ">">>

\* The lines a file is made of: declarations with and without a type of
\* their own, continuations with and without defines, the end marker, a line
\* of code, a declaration without a name, a comment that looks like a marker,
\* a declaration that does not start the line; for the longer files a
\* continuation with one define after a tab.
Line_a == <<"/", "/", "!", "v", "a", "r", "i", "a", "n", "t", " ", "a", ".", "c", "o", "m", "p", " ", "F", "O", "O", "=", "1", NL>>
Line_b == <<"/", "/", "!", "v", "a", "r", "i", "a", "n", "t", " ", "b", ".", "c", "o", "m", "p", " ", "F", "O", "O", "=", "2", NL>>
Line_x == <<"/", "/", "!", "v", "a", "r", "i", "a", "n", "t", " ", "x", " ", "B", "A", "R", NL>>
Line_more == <<"/", "/", "!", ">", " ", "B", "A", "Z", " ", " ", "Q", "U", "X", NL>>
Line_more0 == <<"/", "/", "!", ">", NL>>
Line_end == <<"/", "/", "!", "e", "n", "d", "-", "v", "a", "r", "i", "a", "n", "t", "s", NL>>
Line_code == <<"i", "n", "t", " ", "x", ";", NL>>
Line_bare == <<"/", "/", "!", "v", "a", "r", "i", "a", "n", "t", NL>>
Line_note == <<"/", "/", "!", " ", "n", "o", "t", "e", NL>>
Line_indent == <<" ", " ", "/", "/", "!", "v", "a", "r", "i", "a", "n", "t", " ", "c", ".", "c", "o", "m", "p", NL>>
Line_zed == <<"/", "/", "!", ">", "	", "Z", "E", "D", NL>>
LineKinds == {Line_a, Line_b, Line_x, Line_more, Line_more0, Line_end, Line_code,
              Line_bare, Line_note, Line_indent}

\* Files longer than MaxLines.
LongFiles == {
    <<Line_x, Line_more, Line_zed, Line_b, Line_zed, Line_end, Line_more>>,
    <<Line_code, Line_note, Line_indent, Line_code>>,
    <<Line_code, Line_a, Line_note, Line_more0, Line_more, Line_end, Line_x>>
}

\* Paths of .slang files: one with a shader type in its name, one without.
File_a_comp_slang == <<"s", "/", "a", ".", "c", "o", "m", "p", ".", "s", "l", "a", "n", "g">>
File_a_slang == <<"a", ".", "s", "l", "a", "n", "g">>
InputFiles == {File_a_comp_slang, File_a_slang}

\* str.startswith.
StartsWith(l, m) == Len(l) >= Len(m) /\ SubSeq(l, 1, Len(m)) = m

\* str.split(): the maximal runs of characters that are not white space.
Blank == {" ", "\t", NL}
Split(l) ==
    LET first == Sorted({i \in DOMAIN l : l[i] \notin Blank /\ (i = 1 \/ l[i - 1] \in Blank)})
        last == Sorted({i \in DOMAIN l :
                           l[i] \notin Blank /\ (i = Len(l) \/ l[i + 1] \in Blank)})
    IN  [n \in DOMAIN first |-> SubSeq(l, first[n], last[n])]

\* str.rfind for one character, counting from 1 (0: not found).
LastIndex(path, c) ==
    LET at == {i \in DOMAIN path : path[i] = c}
    IN  IF at = {} THEN 0 ELSE CHOOSE i \in at : \A j \in at : j <= i

\* os.path.splitext: the extension starts at the last dot of the last
\* component, unless only dots precede it there. Gives <<root, ext>>.
SplitExt(path) ==
    LET sep == LastIndex(path, "/")
        dot == LastIndex(path, ".")
    IN  IF dot > sep /\ \E k \in (sep + 1)..(dot - 1) : path[k] # "."
        THEN <<SubSeq(path, 1, dot - 1), SubSeq(path, dot, Len(path))>>
        ELSE <<path, <<>>>>

\* Lines 187-188.
getShaderName(f) == SplitExt(Basename(f))[1]

\* Lines 288-304: a declaration with the words `parts`. Gives whether it is
\* valid, and `result`.
Declare(res, parts, inputType) ==
    IF Len(parts) < 2 THEN [ok |-> FALSE, result |-> res]
    ELSE LET variantName == SplitExt(parts[2])[1]
             variantType == SplitExt(parts[2])[2]
             defines == SubSeq(parts, 3, Len(parts))
         IN  IF Len(variantType) # 0
             THEN [ok |-> TRUE, result |-> Append(res, <<parts[2]>> \o defines)]
             ELSE IF Len(inputType) = 0
             THEN [ok |-> FALSE, result |-> res]
             ELSE [ok |-> TRUE, result |-> Append(res, <<variantName \o inputType>> \o defines)]

\* Fault: the defines go to the first variant.
Continue_First(res, parts) ==
    IF Len(parts) > 1
    THEN [res EXCEPT ![1] = @ \o SubSeq(parts, 2, Len(parts))]
    ELSE res

\* Lines 312-314: result[-1] += parts[1:].
Continue(res, parts) ==
    IF Len(parts) > 1
    THEN [res EXCEPT ![Len(res)] = @ \o SubSeq(parts, 2, Len(parts))]
    ELSE res

\* Fault: the implicit variant is named without the shader type.
Implicit_Untyped(inputWithType) == <<<<SplitExt(inputWithType)[1]>>>>

\* Line 324: the one variant of a file that declares none.
Implicit(inputWithType) == <<<<inputWithType>>>>

\* Fault: the end marker is not asked for.
AtEnd_Unchecked(res, found, inputWithType) ==
    IF Len(res) = 0 THEN Implicit(inputWithType) ELSE res

\* Lines 323-329: the value returned once the loop is over.
AtEnd(res, found, inputWithType) ==
    IF Len(res) = 0 THEN Implicit(inputWithType)
    ELSE IF ~found THEN <<>>
    ELSE res

\* Lines 285-321: one turn of the loop over the lines of the file.
ScanLine ==
    /\ vpc = "scan"
    /\ vlines # <<>>
    /\ lineno' = lineno + 1
    /\ vlines' = Tail(vlines)
    /\ LET l == Head(vlines)
           parts == Split(l)
           inputType == SplitExt(getShaderName(inputFile))[2]
       IN  IF StartsWith(l, Marker_variant)
           THEN IF Declare(vresult, parts, inputType).ok
                THEN /\ vresult' = Declare(vresult, parts, inputType).result
                     /\ UNCHANGED <<endvariantsFound, warned, vpc, variants>>
                ELSE /\ variants' = <<>>
                     /\ vpc' = "done"
                     /\ UNCHANGED <<vresult, endvariantsFound, warned>>
           ELSE IF StartsWith(l, Marker_more)
           THEN IF Len(vresult) = 0
                THEN /\ variants' = <<>>
                     /\ vpc' = "done"
                     /\ UNCHANGED <<vresult, endvariantsFound, warned>>
                ELSE /\ vresult' = Continue(vresult, parts)
                     /\ UNCHANGED <<endvariantsFound, warned, vpc, variants>>
           ELSE IF StartsWith(l, Marker_end)
           THEN /\ endvariantsFound' = TRUE
                /\ vpc' = "end"
                /\ UNCHANGED <<vresult, warned, variants>>
           ELSE IF (StartsWith(l, Marker_bang) \/ StartsWith(l, Marker_angle))
                   /\ Len(vresult) # 0
           THEN /\ warned' = warned \cup {lineno + 1}
                /\ UNCHANGED <<vresult, endvariantsFound, vpc, variants>>
           ELSE UNCHANGED <<vresult, endvariantsFound, warned, vpc, variants>>
    /\ UNCHANGED <<inputFile, content>>
    /\ UNCHANGED <<schedVars, parseVars, taskVars, buildVars, runVars>>

\* Lines 323-329, after the last line or the break of line 318.
Finish ==
    /\ \/ vpc = "scan" /\ vlines = <<>>
       \/ vpc = "end"
    /\ variants' = AtEnd(vresult, endvariantsFound, getShaderName(inputFile))
    /\ vpc' = "done"
    /\ UNCHANGED <<inputFile, content, vlines, lineno, vresult, endvariantsFound, warned>>
    /\ UNCHANGED <<schedVars, parseVars, taskVars, buildVars, runVars>>

\* A call parseShaderVariants(inputFile) on a file that can be read.
VariantInit ==
    /\ DriverInit(<<>>, FALSE)
    /\ ParserOff
    /\ TaskOff
    /\ BuildOff
    /\ RunsOff
    /\ inputFile \in InputFiles
    /\ content \in SeqsUpTo(LineKinds, MaxLines) \cup LongFiles
    /\ vlines = content
    /\ lineno = 0
    /\ vresult = <<>>
    /\ endvariantsFound = FALSE
    /\ warned = {}
    /\ vpc = "scan"
    /\ variants = <<>>

VariantNext == ScanLine \/ Finish

VariantSpec == VariantInit /\ [][VariantNext]_vars

\* ------------------------------------------------- variant properties

\* The file read as a list of declarations, with no reference to the loop.
IsDecl(l) == StartsWith(l, Marker_variant)
IsMore(l) == StartsWith(l, Marker_more)
IsEnd(l) == StartsWith(l, Marker_end)

\* The first end marker (0: none), and the lines before it.
FirstEnd(c) ==
    LET ends == {i \in DOMAIN c : IsEnd(c[i])}
    IN  IF ends = {} THEN 0 ELSE CHOOSE i \in ends : \A j \in ends : i <= j
Scanned(c) == IF FirstEnd(c) = 0 THEN c ELSE SubSeq(c, 1, FirstEnd(c) - 1)
Decls(c) == {i \in DOMAIN Scanned(c) : IsDecl(c[i])}

\* The declaration a continuation line belongs to: the last one before it.
Owner(c, i) == CHOOSE d \in Decls(c) : d < i /\ \A e \in Decls(c) : e < i => e <= d

HasType(name) == \E i \in 2..Len(name) : name[i] = "." /\ \E k \in 1..(i - 1) : name[k] # "."
FileType(f) == SplitExt(getShaderName(f))[2]

\* A well-formed file: it has a declaration and an end marker after it; each
\* marker is a word of its own; each declaration has a name, with a type of
\* its own or one to take from the file; each continuation follows a
\* declaration.
WellFormed(c, f) ==
    /\ FirstEnd(c) # 0
    /\ Decls(c) # {}
    /\ \A i \in Decls(c) :
          /\ Len(Split(c[i])) >= 2
          /\ Split(c[i])[1] = Marker_variant
          /\ HasType(Split(c[i])[2]) \/ FileType(f) # <<>>
    /\ \A i \in DOMAIN Scanned(c) :
          IsMore(c[i]) => /\ Split(c[i])[1] = Marker_more
                          /\ \E d \in Decls(c) : d < i

\* The spec of the declaration at line d: its name with a type, the words
\* after the name, and the words after the marker of each of its
\* continuation lines, in order.
NameWithType(name, f) == IF HasType(name) THEN name ELSE name \o FileType(f)
SpecOf(c, d, f) ==
    LET more == Sorted({i \in DOMAIN Scanned(c) : IsMore(c[i]) /\ d < i /\ Owner(c, i) = d})
    IN  <<NameWithType(Split(c[d])[2], f)>>
        \o Tail(Tail(Split(c[d])))
        \o Concat([n \in DOMAIN more |-> Tail(Split(c[more[n]]))])
ExpectedSpecs(c, f) ==
    [n \in 1..Cardinality(Decls(c)) |-> SpecOf(c, Sorted(Decls(c))[n], f)]

Word_a_comp == <<"a", ".", "c", "o", "m", "p">>
Word_b_comp == <<"b", ".", "c", "o", "m", "p">>
Word_FOO_1 == <<"F", "O", "O", "=", "1">>
Word_FOO_2 == <<"F", "O", "O", "=", "2">>
Word_BAZ == <<"B", "A", "Z">>
Word_QUX == <<"Q", "U", "X">>
Word_BAR == <<"B", "A", "R">>
Word_ZED == <<"Z", "E", "D">>
Word_x_comp == <<"x", ".", "c", "o", "m", "p">>

\* C12: for a well-formed file the value returned has one spec for each
\* declaration before the end marker, in the order of the file: the name with
\* its type, then the defines of the declaration line and of its
\* continuation lines in order; the lines after the end marker play no part.
\* The two declarations a.comp FOO=1 and b.comp FOO=2 followed by the end
\* marker give [[a.comp, FOO=1], [b.comp, FOO=2]].
C12_VariantsInOrder ==
    vpc = "done" =>
        /\ WellFormed(content, inputFile) => variants = ExpectedSpecs(content, inputFile)
        /\ content = <<Line_a, Line_b, Line_end>> =>
              variants = <<<<Word_a_comp, Word_FOO_1>>, <<Word_b_comp, Word_FOO_2>>>>

\* A declaration without a type with two continuation lines, a second
\* declaration with one, the end marker and a continuation line after it.
C12_Witness ==
    /\ vpc = "done"
    /\ inputFile = File_a_comp_slang
    /\ content = <<Line_x, Line_more, Line_zed, Line_b, Line_zed, Line_end, Line_more>>
    /\ variants = <<<<Word_x_comp, Word_BAR, Word_BAZ, Word_QUX, Word_ZED>>,
                    <<Word_b_comp, Word_FOO_2, Word_ZED>>>>

\* C13 as stated: the empty list is returned when a continuation line comes
\* before any declaration, and when there is a declaration and no end marker.
C13_ErrorsGiveEmpty ==
    (/\ vpc = "done"
     /\ \/ \E i \in DOMAIN content :
              IsMore(content[i]) /\ \A j \in 1..(i - 1) : ~IsDecl(content[j])
        \/ /\ \E i \in DOMAIN content : IsDecl(content[i])
           /\ \A j \in DOMAIN content : ~IsEnd(content[j]))
    => variants = <<>>

\* C13, amended: the empty list is returned when a continuation line comes
\* before any declaration and before any end marker, and when there is a
\* declaration and no end marker.
C13_ScannedErrorsGiveEmpty ==
    (/\ vpc = "done"
     /\ \/ \E i \in DOMAIN content :
              /\ IsMore(content[i])
              /\ \A j \in 1..(i - 1) : ~IsDecl(content[j]) /\ ~IsEnd(content[j])
        \/ /\ \E i \in DOMAIN content : IsDecl(content[i])
           /\ \A j \in DOMAIN content : ~IsEnd(content[j]))
    => variants = <<>>

\* A valid declaration with a continuation line and no end marker.
C13_Witness ==
    /\ vpc = "done"
    /\ inputFile = File_a_comp_slang
    /\ content = <<Line_x, Line_more>>
    /\ vresult = <<<<Word_x_comp, Word_BAR, Word_BAZ, Word_QUX>>>>
    /\ variants = <<>>

\* The base name of a path without its last extension.
RECURSIVE AfterSlashes(_)
AfterSlashes(path) ==
    IF LastIndex(path, "/") = 0 THEN path
    ELSE AfterSlashes(SubSeq(path, LastIndex(path, "/") + 1, Len(path)))
WithoutLastExtension(path) ==
    SubSeq(AfterSlashes(path), 1, LastIndex(AfterSlashes(path), ".") - 1)

\* C14: for a file without a declaration, a continuation line or an end
\* marker the value returned is the one spec whose one element is the base
\* name of the file without its last extension.
C14_ImplicitVariant ==
    (/\ vpc = "done"
     /\ \A i \in DOMAIN content :
           ~IsDecl(content[i]) /\ ~IsMore(content[i]) /\ ~IsEnd(content[i]))
    => variants = <<<<WithoutLastExtension(inputFile)>>>>

\* s/a.comp.slang with lines of code and comments only gives [[a.comp]].
C14_Witness ==
    /\ vpc = "done"
    /\ inputFile = File_a_comp_slang
    /\ content = <<Line_code, Line_note, Line_indent, Line_code>>
    /\ variants = <<<<Word_a_comp>>>>

\* -------------------------------------------------------------- Task.build

\* The tools of the command lines: args.glslang, args.slangc and
\* sys.executable, the last one also with a space in its path.
Tool_glslang == <<"t", "/", "g", "l", "s", "l", "a", "n", "g">>
Tool_slangc == <<"t", "/", "s", "l", "a", "n", "g", "c">>
Pythons == {<<"u", "/", "p", "y", "t", "h", "o", "n", "3">>, <<"p", " ", "f", "/", "p", "y", "t", "h", "o", "n", "3">>}

\* Lines 209-211: the one command of a glslang Task (flags left out).
GlslangCommand == Tool_glslang \o <<" ", "-", "V", " ", "-", "o", " ", "o", "/", "a", ".", "s", "p", "v", " ", "-", "-", "d", "e", "p", "f", "i", "l", "e", " ", "o", "/", "a", ".", "d", " ", "a", ".", "c", "o", "m", "p">>

\* Lines 232-244: the compile command of a slang Task (flags left out).
SlangCommand == Tool_slangc \o <<" ", "-", "d", "e", "p", "f", "i", "l", "e", " ", "o", "/", "a", ".", "d", " ", "a", ".", "s", "l", "a", "n", "g", " ", "-", "o", " ", "o", "/", "a", ".", "s", "p", "v">>

\* Line 253: the conversion of the binary to a header,
\* f'"{sys.executable}" {shader_xxd} -i {destFile} -o {headerFile}'.
XxdCommand(python) == <<"\"">> \o python \o <<"\"">> \o <<" ", "x", "/", "s", "h", "a", "d", "e", "r", "_", "x", "x", "d", ".", "p", "y", " ", "-", "i", " ", "o", "/", "a", ".", "s", "p", "v", " ", "-", "o", " ", "o", "/", "a", ".", "h">>

\* task.commands as lines 211, 248 and 255 set it, and the empty list of a
\* Task that was given none (line 70).
CommandLists ==
    {<<>>, <<GlslangCommand>>, <<SlangCommand>>}
    \cup {<<SlangCommand, XxdCommand(python)>> : python \in Pythons}

\* What a process may write to stdout and stderr together: nothing, blanks
\* only, a line, a line with blanks around it.
Outs == {<<>>, <<" ", NL>>, <<"w", NL>>, <<" ", "e", " ", "r", " ", NL>>}

\* Return codes, each as <<hi, lo>> for hi * 65536 + lo. Where a long has
\* 32 bits (Windows, 32-bit systems): 0, 1, 65536, 2^31 - 1, 2^31,
\* 0xC0000005 and 2^32 - 1. On POSIX systems, whatever the width of a long:
\* an exit status 0..255, or -N for a process a signal N ended (here -9).
Zero == <<0, 0>>
PosixCodes == {Zero, <<0, 1>>, <<0, 255>>, <<-1, 65527>>}
WindowsCodes == {Zero, <<0, 1>>, <<1, 0>>, <<32767, 65535>>, <<32768, 0>>, <<49152, 5>>,
                 <<65535, 65535>>}
ReturnCodes(bits) == IF bits = 32 THEN PosixCodes \cup WindowsCodes ELSE PosixCodes

\* Line 131: ctypes.c_long(returncode).value for a long of the given width.
CLong(bits, hi, lo) == IF bits = 32 THEN ToInt32(hi, lo) ELSE hi * 65536 + lo

\* str.strip(): the string without the blanks at its two ends.
Strip(str) ==
    LET inked == {i \in DOMAIN str : str[i] \notin Blank}
    IN  IF inked = {} THEN <<>>
        ELSE SubSeq(str, CHOOSE i \in inked : \A j \in inked : i <= j,
                         CHOOSE i \in inked : \A j \in inked : j <= i)

\* Line 120: os.path.basename(command.split(' ')[0]).
FirstField(command) ==
    LET spaces == {i \in DOMAIN command : command[i] = " "}
    IN  IF spaces = {} THEN command
        ELSE SubSeq(command, 1, (CHOOSE i \in spaces : \A j \in spaces : i <= j) - 1)
CommandNameOf(command) == Basename(FirstField(command))

\* Lines 123-127: allCommandOutputs after a command.
AllOutputs(all, combinedOutput) ==
    IF Len(combinedOutput) # 0
    THEN (IF Len(all) # 0 THEN Append(all, NL) ELSE all) \o combinedOutput
    ELSE all

\* Lines 107-111: build() is called.
build ==
    /\ bpc = "call"
    /\ allCommandOutputs' = <<>>
    /\ commandName' = <<>>
    /\ IF commands = <<>>
       THEN /\ built' = [exitCode |-> 0, output |-> <<>>, lastCommand |-> <<>>]
            /\ bpc' = "returned"
            /\ UNCHANGED cmdIndex
       ELSE /\ cmdIndex' = 1
            /\ bpc' = "spawn"
            /\ UNCHANGED built
    /\ UNCHANGED <<commands, longBits, ran>>
    /\ UNCHANGED <<schedVars, parseVars, taskVars, variantVars, runVars>>

\* Line 115: the process of the command is started.
StartCommand ==
    /\ bpc = "spawn"
    /\ bpc' = "wait"
    /\ UNCHANGED <<commands, cmdIndex, allCommandOutputs, commandName, longBits, ran, built>>
    /\ UNCHANGED <<schedVars, parseVars, taskVars, variantVars, runVars>>

\* Lines 116-134: the process ended with return code rc, having written o;
\* the name of the command is taken, the output is added, and build()
\* returns at a non-zero return code and after the last command.
EndCommand ==
    /\ bpc = "wait"
    /\ \E rc \in ReturnCodes(longBits), o \in Outs :
          LET name == CommandNameOf(commands[cmdIndex])
              all == AllOutputs(allCommandOutputs, Strip(o))
          IN  /\ commandName' = name
              /\ allCommandOutputs' = all
              /\ ran' = Append(ran, [command |-> commands[cmdIndex], returncode |-> rc,
                                     out |-> o])
              /\ IF rc # Zero
                 THEN /\ built' = [exitCode |-> CLong(longBits, rc[1], rc[2]),
                                   output |-> all, lastCommand |-> name]
                      /\ bpc' = "returned"
                      /\ UNCHANGED cmdIndex
                 ELSE IF cmdIndex = Len(commands)
                 THEN /\ built' = [exitCode |-> 0, output |-> all, lastCommand |-> name]
                      /\ bpc' = "returned"
                      /\ UNCHANGED cmdIndex
                 ELSE /\ cmdIndex' = cmdIndex + 1
                      /\ bpc' = "spawn"
                      /\ UNCHANGED built
    /\ UNCHANGED <<commands, longBits>>
    /\ UNCHANGED <<schedVars, parseVars, taskVars, variantVars, runVars>>

\* A call of build() on a Task with one of the command lists.
BuildInit ==
    /\ DriverInit(<<>>, FALSE)
    /\ ParserOff
    /\ TaskOff
    /\ VariantsOff
    /\ RunsOff
    /\ commands \in CommandLists
    /\ longBits \in {32, 64}
    /\ cmdIndex = 0
    /\ allCommandOutputs = <<>>
    /\ commandName = <<>>
    /\ ran = <<>>
    /\ bpc = "call"
    /\ built = [exitCode |-> 0, output |-> <<>>, lastCommand |-> <<>>]

BuildNext == build \/ StartCommand \/ EndCommand

BuildSpec == BuildInit /\ [][BuildNext]_vars

\* --------------------------------------------------- build properties

\* The program a command line runs: its first word, which ends at the first
\* space outside double quotes, without the quotes.
ExecutableOf(command) ==
    LET closing == {i \in 2..Len(command) : command[i] = "\""}
        spaces == {i \in DOMAIN command : command[i] = " "}
    IN  IF command[1] = "\"" /\ closing # {}
        THEN SubSeq(command, 2, (CHOOSE i \in closing : \A j \in closing : i <= j) - 1)
        ELSE IF spaces = {} THEN command
        ELSE SubSeq(command, 1, (CHOOSE i \in spaces : \A j \in spaces : i <= j) - 1)

\* The outputs of the processes that wrote more than blanks, each without the
\* blanks at its ends, one per line.
Written(rs) == SelectSeq([i \in DOMAIN rs |-> Strip(rs[i].out)], LAMBDA o : o # <<>>)
RECURSIVE JoinLines(_)
JoinLines(ls) ==
    IF ls = <<>> THEN <<>>
    ELSE IF Len(ls) = 1 THEN ls[1]
    ELSE ls[1] \o <<NL>> \o JoinLines(Tail(ls))

\* The commands were run in list order, none after one that returned
\* non-zero; the exit code is 0 exactly when every command returned zero;
\* the output is that of the commands that were run.
BuildOrderAndOutput ==
    bpc = "returned" =>
        /\ Len(ran) <= Len(commands)
        /\ \A i \in DOMAIN ran : ran[i].command = commands[i]
        /\ \A i \in 1..(Len(ran) - 1) : ran[i].returncode = Zero
        /\ (\A i \in DOMAIN ran : ran[i].returncode = Zero) =>
              (Len(ran) = Len(commands) /\ built.exitCode = 0)
        /\ (ran # <<>> /\ ran[Len(ran)].returncode # Zero) =>
              (built.exitCode # 0 /\ built.exitCode % 65536 = ran[Len(ran)].returncode[2])
        /\ built.output = JoinLines(Written(ran))

\* C18: build() runs the commands in list order and stops at the first one
\* that returns non-zero; the result has that command's exit code (0 when
\* every command returned zero), the output up to and including that
\* command, and the base name of the executable of the last command run.
C18_BuildStopsAtFirstFailure ==
    /\ BuildOrderAndOutput
    /\ (bpc = "returned" /\ ran # <<>>) =>
          built.lastCommand = Basename(ExecutableOf(ran[Len(ran)].command))

\* C19: the exit code of a failing command is its return code read as a
\* signed 32-bit integer: r itself below 2^31, r - 2^32 from 2^31 on; it is
\* not 0, and the worker that tests it (lines 184-185) sets the flag.
C19_SignedExitCode ==
    (bpc = "returned" /\ ran # <<>> /\ ran[Len(ran)].returncode # Zero) =>
        LET hi == ran[Len(ran)].returncode[1]
            lo == ran[Len(ran)].returncode[2]
            e == built.exitCode
        IN  /\ e # 0
            /\ (0 <= hi /\ hi < 32768) => (e >= 0 /\ e \div 65536 = hi /\ e % 65536 = lo)
            /\ hi >= 32768 => (e < 0 /\ e \div 65536 = hi - 65536 /\ e % 65536 = lo)
            /\ FlagAfter(e, FALSE)

\* The conversion to a header ended with 0xC0000005 after a compile command
\* that returned 0: the exit code is -1073741819.
C19_Witness ==
    /\ bpc = "returned"
    /\ Len(ran) = 2
    /\ ran[1].returncode = Zero
    /\ ran[2].returncode = <<49152, 5>>
    /\ built.exitCode = -1073741819

\* ---------------------------------------------------- two runs of the driver

\* args.input holds up to MaxFiles of these files; args.output is "o".
File_f_comp == <<"s", "/", "f", ".", "c", "o", "m", "p">>
File_f_comp_slang == <<"s", "/", "f", ".", "c", "o", "m", "p", ".", "s", "l", "a", "n", "g">>
File_g_frag == <<"s", "/", "g", ".", "f", "r", "a", "g">>
TreeFiles == {File_f_comp, File_f_comp_slang, File_g_frag}
Dir_out == <<"o">>

Ext_spv == <<".", "s", "p", "v">>
Ext_h == <<".", "h">>
Ext_d == <<".", "d">>

\* Lines 335-343: the endings of the files glslang compiles.
GlslExtensions == {
    <<".", "c", "o", "m", "p">>,
    <<".", "v", "e", "r", "t">>,
    <<".", "g", "e", "o", "m">>,
    <<".", "f", "r", "a", "g">>,
    <<".", "r", "g", "e", "n">>,
    <<".", "r", "c", "h", "i", "t">>,
    <<".", "r", "a", "h", "i", "t">>,
    <<".", "r", "m", "i", "s", "s">>,
    <<".", "r", "i", "n", "t">>
}

\* str.endswith.
EndsWith(name, e) ==
    Len(name) >= Len(e) /\ SubSeq(name, Len(name) - Len(e) + 1, Len(name)) = e

\* os.path.join of a directory and a relative name (POSIX separator).
PathJoin(dir, name) == dir \o <<"/">> \o name

\* createGlslangTask, lines 201-212: the paths of the Task, and for each
\* command the file its -o option names and the depfile it is told to write
\* (<<>>: none).
createGlslangTask(f) ==
    LET shaderName == getShaderName(f)
        destExtension == IF binary THEN Ext_spv ELSE Ext_h
        destFile == PathJoin(Dir_out, shaderName \o destExtension)
        depFile == PathJoin(Dir_out, shaderName \o Ext_d)
    IN  [inputFile |-> f, destFile |-> destFile, depFile |-> depFile,
         commands |-> <<[o |-> destFile, depfile |-> depFile]>>]

\* createSlangTask, lines 214-257.
createSlangTask(f, variantSpec) ==
    LET variantName == SplitExt(variantSpec[1])[1]
        destFile == PathJoin(Dir_out, variantName \o Ext_spv)
        headerFile == PathJoin(Dir_out, variantName \o Ext_h)
        depFile == PathJoin(Dir_out, variantName \o Ext_d)
        command1 == [o |-> destFile, depfile |-> depFile]
        command2 == [o |-> headerFile, depfile |-> <<>>]
    IN  [inputFile |-> f, destFile |-> destFile, depFile |-> depFile,
         commands |-> IF binary THEN <<command1>> ELSE <<command1, command2>>]

\* Lines 335-361: the Task the walk makes for a file. The .slang files of the
\* tree declare no variant, so that parseShaderVariants gives the one variant
\* of line 324 and the file makes one Task. A file of TreeFiles that has
\* none of the endings of GlslExtensions ends with ".slang" (line 350).
TaskOf(f) ==
    IF \E e \in GlslExtensions : EndsWith(f, e)
    THEN createGlslangTask(f)
    ELSE createSlangTask(f, AtEnd(<<>>, FALSE, getShaderName(f))[1])

ShaderNames == {<<"f">>, <<"g">>}
DepPaths == {PathJoin(Dir_out, n \o Ext_d) : n \in ShaderNames}
RunPaths ==
    TreeFiles \cup {PathJoin(Dir_out, n \o e) : n \in ShaderNames, e \in {Ext_spv, Ext_h, Ext_d}}

\* The depfile a compiler writes for its --depfile / -depfile option: one
\* rule, the file of -o as the target and the source as the dependency.
CompilerDepfile(t) == Concat(<<t.destFile, <<":", " ">>, t.inputFile, <<NL>>>>)

\* The walk reaches a file (lines 331-334) and makes its Task up to the call
\* of depfile.parse (lines 192-195), or up to line 199 when the depfile
\* cannot be opened.
WalkFile ==
    /\ rpc = "walk"
    /\ walkAt <= Len(tree)
    /\ LET t == TaskOf(tree[walkAt])
       IN  IF t.depFile \in present
           THEN /\ text' = depText[t.depFile]
                /\ lines' = ReadLines(depText[t.depFile], <<>>)
                /\ expectedTarget' = t.destFile
                /\ line' = <<>>
                /\ targets' = <<>>
                /\ deps' = <<>>
                /\ in_deps' = FALSE
                /\ out' = <<>>
                /\ escape' = None
                /\ ret' = <<>>
                /\ rules' = <<>>
                /\ ppc' = "lines"
                /\ rpc' = "parsing"
                /\ UNCHANGED <<inputs, outputs>>
           ELSE /\ inputs' = NoInputs(tree[walkAt])
                /\ outputs' = <<t.destFile, t.depFile>>
                /\ rpc' = "created"
                /\ UNCHANGED parseVars
    /\ UNCHANGED <<force, present, mtime, newestTool, depRead, tpc, made, needs>>
    /\ UNCHANGED <<tree, run, walkAt, queue, depText, now, stopped, enq, log, changed>>
    /\ UNCHANGED <<schedVars, variantVars, buildVars>>

\* Lines 195 and 198-199, once depfile.parse returned.
WalkParsed ==
    /\ rpc = "parsing"
    /\ ppc = "done"
    /\ inputs' = ret
    /\ outputs' = <<TaskOf(tree[walkAt]).destFile, TaskOf(tree[walkAt]).depFile>>
    /\ rpc' = "created"
    /\ UNCHANGED <<force, present, mtime, newestTool, depRead, tpc, made, needs>>
    /\ UNCHANGED <<tree, run, walkAt, queue, depText, now, stopped, enq, log, changed>>
    /\ UNCHANGED <<schedVars, parseVars, variantVars, buildVars>>

\* Lines 347-348 and 360-361: the Task is appended when needsBuild() is true.
WalkNeedsBuild ==
    /\ rpc = "created"
    /\ LET nb == NeedsBuild(inputs, outputs)
       IN  /\ needs' = nb
           /\ queue' = IF nb THEN Append(queue, walkAt) ELSE queue
           /\ enq' = IF nb THEN [enq EXCEPT ![run] = @ \cup {walkAt}] ELSE enq
    /\ walkAt' = walkAt + 1
    /\ rpc' = "walk"
    /\ UNCHANGED <<force, present, mtime, newestTool, depRead, inputs, outputs, tpc, made>>
    /\ UNCHANGED <<tree, run, depText, now, stopped, log, changed>>
    /\ UNCHANGED <<schedVars, parseVars, variantVars, buildVars>>

\* Lines 363-375, the walk being over: with no Task queued no thread is
\* started and the run ends.
WalkOver ==
    /\ rpc = "walk"
    /\ walkAt > Len(tree)
    /\ rpc' = IF queue = <<>> THEN "exit" ELSE "build"
    /\ UNCHANGED <<tree, run, walkAt, queue, depText, now, stopped, enq, log, changed>>
    /\ UNCHANGED <<schedVars, parseVars, taskVars, variantVars, buildVars>>

\* The files the first k commands of the Task t write.
WrittenBy(t, k) ==
    {t.commands[j].o : j \in 1..k}
        \cup {t.commands[j].depfile : j \in {i \in 1..k : t.commands[i].depfile # <<>>}}

\* runTasks without -parallel (one thread, lines 146-185): the head of the
\* queue is taken and built. Its first k commands return 0 and write their
\* files at the time `at`; when a command is left it returns non-zero,
\* writes nothing, and the flag is set (line 185).
RunBuild ==
    /\ rpc = "build"
    /\ queue # <<>>
    /\ ~stopped
    /\ LET i == Head(queue)
           t == TaskOf(tree[i])
       IN  \E k \in 0..Len(t.commands), at \in now..MaxTime :
              /\ present' = present \cup WrittenBy(t, k)
              /\ mtime' = [p \in RunPaths |-> IF p \in WrittenBy(t, k) THEN at ELSE mtime[p]]
              /\ depText' = [d \in DepPaths |->
                                IF d \in WrittenBy(t, k) THEN CompilerDepfile(t)
                                ELSE depText[d]]
              /\ now' = at
              /\ stopped' = (k < Len(t.commands))
              /\ log' = [log EXCEPT ![run] = @ \cup
                           {[unit |-> i,
                             exitCode |-> IF k = Len(t.commands) THEN 0 ELSE 1]}]
    /\ queue' = Tail(queue)
    /\ UNCHANGED <<force, newestTool, depRead, inputs, outputs, tpc, made, needs>>
    /\ UNCHANGED <<tree, run, walkAt, rpc, enq, changed>>
    /\ UNCHANGED <<schedVars, parseVars, variantVars, buildVars>>

\* Lines 148-157 and 371-375: the thread ends when the flag is set or the
\* queue is empty, and the driver exits.
RunExit ==
    /\ rpc = "build"
    /\ queue = <<>> \/ stopped
    /\ rpc' = "exit"
    /\ UNCHANGED <<tree, run, walkAt, queue, depText, now, stopped, enq, log, changed>>
    /\ UNCHANGED <<schedVars, parseVars, taskVars, variantVars, buildVars>>

\* The driver is started again on the same tree, with or without --force;
\* in between a source may have been modified.
NextRun ==
    /\ rpc = "exit"
    /\ run = 1
    /\ run' = 2
    /\ force' \in BOOLEAN
    /\ \E touched \in 0..Len(tree) :
          IF touched = 0
          THEN UNCHANGED <<mtime, now, changed>>
          ELSE /\ mtime' = [mtime EXCEPT ![tree[touched]] = MaxTime]
               /\ now' = MaxTime
               /\ changed' = TRUE
    /\ walkAt' = 1
    /\ queue' = <<>>
    /\ stopped' = FALSE
    /\ rpc' = "walk"
    /\ UNCHANGED <<present, newestTool, depRead, inputs, outputs, tpc, made, needs>>
    /\ UNCHANGED <<tree, depText, enq, log>>
    /\ UNCHANGED <<schedVars, parseVars, variantVars, buildVars>>

\* The trees: up to MaxFiles different files, in any order.
Trees ==
    {t \in SeqsUpTo(TreeFiles, MaxFiles) : \A i, j \in DOMAIN t : i # j => t[i] # t[j]}

\* The first run starts on an empty output directory (line 58 made it), the
\* sources and the tools being of time 1.
RunsInit ==
    /\ \E bin \in BOOLEAN : DriverInit(<<>>, bin)
    /\ ParserOff
    /\ VariantsOff
    /\ BuildOff
    /\ tree \in Trees
    /\ force \in BOOLEAN
    /\ present = {tree[i] : i \in DOMAIN tree}
    /\ mtime = [p \in RunPaths |-> 1]
    /\ newestTool = 1
    /\ depRead = "absent"
    /\ inputs = <<>>
    /\ outputs = <<>>
    /\ tpc = "off"
    /\ made = FALSE
    /\ needs = FALSE
    /\ run = 1
    /\ walkAt = 1
    /\ rpc = "walk"
    /\ queue = <<>>
    /\ depText = [d \in DepPaths |-> <<>>]
    /\ now = 1
    /\ stopped = FALSE
    /\ enq = [r \in 1..2 |-> {}]
    /\ log = [r \in 1..2 |-> {}]
    /\ changed = FALSE

RunsNext ==
    \/ WalkFile
    \/ NextLine
    \/ ReturnEmpty
    \/ ParseChar
    \/ WalkParsed
    \/ WalkNeedsBuild
    \/ WalkOver
    \/ RunBuild
    \/ RunExit
    \/ NextRun

RunsSpec == RunsInit /\ [][RunsNext]_vars

\* ---------------------------------------------------- properties of the runs

\* The first run is over and build() returned 0 for every Task it queued.
FirstRunSucceeded ==
    /\ run = 2
    /\ \A i \in enq[1] : [unit |-> i, exitCode |-> 0] \in log[1]

\* C17: after a run in which every queued Task was built with exit code 0, a
\* second run with no change of the files and without --force finds
\* needsBuild() false for every Task: it queues nothing and builds nothing.
C17_SecondRunBuildsNothing ==
    (FirstRunSucceeded /\ ~force /\ ~changed) => (enq[2] = {} /\ log[2] = {})

\* Two Tasks of the tree have one depfile and different targets.
SharedDepfile ==
    \E i, j \in DOMAIN tree :
        /\ TaskOf(tree[i]).depFile = TaskOf(tree[j]).depFile
        /\ TaskOf(tree[i]).destFile # TaskOf(tree[j]).destFile

\* Apart from such trees the second run queues nothing.
SecondRunBuildsNothingUnshared ==
    (FirstRunSucceeded /\ ~force /\ ~changed /\ ~SharedDepfile) =>
        (enq[2] = {} /\ log[2] = {})

\* The second run has queued a Task again though nothing changed.
RebuiltUnchanged ==
    /\ FirstRunSucceeded
    /\ ~force
    /\ ~changed
    /\ enq[2] # {}

\* Task.outputs, line 198.
OutputPaths(t) == {t.destFile, t.depFile}

\* C28: no two Tasks queued in one run of the driver have an output path in
\* common, neither the file of -o nor the depfile, whatever the tree holds.
C28_DisjointOutputs ==
    \A r \in 1..2 : \A i, j \in enq[r] :
        i # j => OutputPaths(TaskOf(tree[i])) \cap OutputPaths(TaskOf(tree[j])) = {}

\* f.comp and f.comp.slang are queued in one run and both are told to write
\* o/f.d.
QueuedWithSharedDepfile ==
    \E i, j \in enq[1] :
        /\ i # j
        /\ TaskOf(tree[i]).depFile = TaskOf(tree[j]).depFile

\* The walk of the second run is over and no file was changed between the
\* runs.
SecondWalkOver == run = 2 /\ rpc \in {"build", "exit"} /\ ~changed

\* build() returned non-zero for the Task of tree[i] in the first run.
FailedInFirstRun(i) == [unit |-> i, exitCode |-> 1] \in log[1]

\* C29: a Task whose build failed in one run has needsBuild() true in the
\* next run on the unchanged files and is queued again, also a Task of two
\* commands whose second command was the one that failed.
C29_FailedTaskQueuedAgain ==
    SecondWalkOver => \A i \in DOMAIN tree : FailedInFirstRun(i) => i \in enq[2]

\* No two Tasks of the tree have an output path in common.
DisjointTree ==
    \A i, j \in DOMAIN tree :
        i # j => OutputPaths(TaskOf(tree[i])) \cap OutputPaths(TaskOf(tree[j])) = {}

\* In such a tree a failed Task of one command is queued again.
FailedSingleCommandQueuedAgain ==
    (SecondWalkOver /\ DisjointTree) =>
        \A i \in DOMAIN tree :
            (FailedInFirstRun(i) /\ Len(TaskOf(tree[i]).commands) = 1) => i \in enq[2]

\* The tree holds f.comp.slang alone; slangc wrote o/f.spv and o/f.d and the
\* conversion to o/f.h failed; the second run, without --force, left the
\* Task out.
HeaderFailedNotQueued ==
    /\ SecondWalkOver
    /\ ~force
    /\ tree = <<File_f_comp_slang>>
    /\ FailedInFirstRun(1)
    /\ PathJoin(Dir_out, <<"f">> \o Ext_spv) \in present
    /\ PathJoin(Dir_out, <<"f">> \o Ext_h) \notin present
    /\ enq[2] = {}

====
